---------------------------- MODULE Spec2Model ----------------------------
(***************************************************************************)
(* A model of the school-dash sheets service (sheetsService.js, listed in  *)
(* src/README.md from line 236 on) and of the calls the HTTP layer makes   *)
(* into it.  The spreadsheet is a sequence of named sheets; a sheet is a   *)
(* grid (a sequence of rows), a row a sequence of cells and a cell a       *)
(* JavaScript string, modelled as a sequence of one-character strings so   *)
(* that trim, toLowerCase, includes, indexOf, substring and parseFloat are *)
(* computed and not assumed.  Array indices are 0-based as in the source.  *)
(***************************************************************************)
EXTENDS Integers, Sequences, FiniteSets, TLC

VARIABLES
    sheets,         \* the spreadsheet: sequence of [name, values]
    call,           \* the last call made into the service, with its arguments
    result,         \* what that call returned, or the exception it threw
    locals,         \* the locals of getSchoolStats' test-sheet loop in that call
    accessor,       \* which requests to the Google Sheets API fail
    sheetMetadata,  \* the module-level variable of sheetsService.js
    issued,         \* the API requests issued during that call, in order
    earlier,        \* an earlier call and what it returned, noted by Observe
    server,         \* server.js: the environment, sheets, spreadsheetId, listening
    dashboard       \* StudentDashboard: its React state and its pending requests

vars ==
    <<sheets, call, result, locals, accessor, sheetMetadata, issued, earlier, server, dashboard>>

---------------------------------------------------------------------------
(* JavaScript values that are not always strings *)

Str(s) == [t |-> "string", v |-> s]

Null == [t |-> "null", v |-> <<>>]

Undefined == [t |-> "undefined", v |-> <<>>]

\* !x for a value that is a string, null or undefined
Falsy(x) == x.t # "string" \/ x.v = <<>>

Range(s) == {s[i] : i \in 1..Len(s)}

Min(S) == CHOOSE m \in S : \A n \in S : m <= n

Max(S) == CHOOSE m \in S : \A n \in S : m >= n

---------------------------------------------------------------------------
(* String.prototype methods *)

UpperChars == <<"A","B","C","D","E","F","G","H","I","J","K","L","M",
                "N","O","P","Q","R","S","T","U","V","W","X","Y","Z">>

LowerChars == <<"a","b","c","d","e","f","g","h","i","j","k","l","m",
                "n","o","p","q","r","s","t","u","v","w","x","y","z">>

\* the lower-case and upper-case forms of the letters
LowerOf == [c \in {UpperChars[i] : i \in 1..26} |->
               LowerChars[CHOOSE i \in 1..26 : UpperChars[i] = c]]

UpperOf == [c \in {LowerChars[i] : i \in 1..26} |->
               UpperChars[CHOOSE i \in 1..26 : LowerChars[i] = c]]

toLowerChar(c) == IF c \in DOMAIN LowerOf THEN LowerOf[c] ELSE c

toUpperChar(c) == IF c \in DOMAIN UpperOf THEN UpperOf[c] ELSE c

toLowerCase(s) == [i \in 1..Len(s) |-> toLowerChar(s[i])]

toUpperCase(s) == [i \in 1..Len(s) |-> toUpperChar(s[i])]

\* s.includes(sub)
includes(s, sub) ==
    \E i \in 0..(Len(s) - Len(sub)) : SubSeq(s, i + 1, i + Len(sub)) = sub

\* s.indexOf(c) for a one-character c: 0-based, -1 when absent
indexOf(s, c) ==
    IF \E i \in 1..Len(s) : s[i] = c
    THEN Min({i \in 1..Len(s) : s[i] = c}) - 1
    ELSE -1

\* s.substring(0, n)
substring0(s, n) == SubSeq(s, 1, n)

WhiteSpace == {" ", "\t", "\n"}

RECURSIVE trimStart(_)
trimStart(s) ==
    IF s # <<>> /\ Head(s) \in WhiteSpace THEN trimStart(Tail(s)) ELSE s

RECURSIVE trimEnd(_)
trimEnd(s) ==
    IF s # <<>> /\ s[Len(s)] \in WhiteSpace
    THEN trimEnd(SubSeq(s, 1, Len(s) - 1))
    ELSE s

trim(s) == trimEnd(trimStart(s))

\* row[idx]: undefined outside the array (idx = -1 included)
At(row, idx) ==
    IF idx >= 0 /\ idx < Len(row) THEN Str(row[idx + 1]) ELSE Undefined

\* x?.toString().trim()
OptTrim(x) == IF x.t = "string" THEN Str(trim(x.v)) ELSE Undefined

\* x?.toString().trim() || ''
TrimOrEmpty(x) == IF x.t = "string" THEN trim(x.v) ELSE <<>>

\* header.findIndex(P): 0-based index of the first element satisfying P, or -1
findIndex(header, P(_)) ==
    IF \E i \in 1..Len(header) : P(header[i])
    THEN Min({i \in 1..Len(header) : P(header[i])}) - 1
    ELSE -1

---------------------------------------------------------------------------
(* extractUsernameFromLearnerDetails *)

AtSign == "@"

extractNoNullGuard(learnerDetails) ==
    LET str == trim(learnerDetails.v)
        atIndex == indexOf(str, AtSign)
    IN  IF atIndex # -1 THEN Str(substring0(str, atIndex)) ELSE Str(str)

extractLastAt(learnerDetails) ==
    IF Falsy(learnerDetails) THEN Null
    ELSE LET str == trim(learnerDetails.v)
             S == {i \in 1..Len(str) : str[i] = AtSign}
         IN  IF S # {} THEN Str(substring0(str, Max(S) - 1)) ELSE Str(str)

extractUsernameFromLearnerDetails(learnerDetails) ==
    IF Falsy(learnerDetails) THEN Null
    ELSE LET str == trim(learnerDetails.v)
             atIndex == indexOf(str, AtSign)
         IN  IF atIndex # -1 THEN Str(substring0(str, atIndex)) ELSE Str(str)

---------------------------------------------------------------------------
(* The Grid Accessor: getSheetNames and readSheet.  The variable accessor  *)
(* says which requests to the Google Sheets API fail: listing the sheets,  *)
(* and reading the sheets named in accessor.read.                          *)

\* StudentDashboard at its first render: the useState initial values, for a
\* student id of the URL; pending holds the getTestDetails requests whose
\* response has not come, requests counts the requests made so far
Unmounted ==
    [studentId |-> <<>>, loading |-> TRUE, error |-> Null, studentData |-> Null,
     selectedTest |-> Null, testDetails |-> Null, loadingDetails |-> FALSE,
     pending |-> {}, requests |-> 0]

\* server.js after a start-up that succeeded: the client and the spreadsheet
\* id are set and the server listens
Ready ==
    [env |-> [spreadsheetId |-> TRUE, auth |-> "serviceAccount", clientOk |-> TRUE],
     sheetsClient |-> TRUE, spreadsheetId |-> TRUE, listening |-> TRUE]

\* every request succeeds
Healthy == [list |-> FALSE, read |-> {}]

\* sheets.spreadsheets.get fails and getSheetNames throws
listFails == accessor.list

getSheetNamesOnce(ss) ==
    IF earlier = Null THEN [i \in 1..Len(ss) |-> ss[i].name] ELSE <<>>

\* response.data.sheets.map(sheet => sheet.properties.title), when the
\* request succeeds
getSheetNames(ss) == [i \in 1..Len(ss) |-> ss[i].name]

\* sheets.spreadsheets.values.get fails: for the sheets of accessor.read,
\* and for a name that no sheet of the spreadsheet has
readFails(ss, sheetName) ==
    sheetName \in accessor.read \/ \A i \in 1..Len(ss) : ss[i].name # sheetName

\* response.data.values || [] ; the catch block returns [] on a failure
readSheet(ss, sheetName) ==
    IF readFails(ss, sheetName) THEN <<>>
    ELSE ss[CHOOSE i \in 1..Len(ss) : ss[i].name = sheetName].values

\* an exception that leaves a function
Thrown(message) == [thrown |-> TRUE, error |-> message]

IsThrown(r) == "thrown" \in DOMAIN r

MappingName == <<"M", "a", "p", "p", "i", "n", "g">>

---------------------------------------------------------------------------
(* Header predicates of the mapping sheet *)

isOpengradSchoolCode(h) ==
    LET lower == toLowerCase(h)
    IN  includes(lower, <<"o", "p", "e", "n", "g", "r", "a", "d">>) /\ includes(lower, <<"s", "c", "h", "o", "o", "l">>)
            /\ includes(lower, <<"c", "o", "d", "e">>)

isSchool(h) == includes(toLowerCase(h), <<"s", "c", "h", "o", "o", "l">>)

isUserName(h) == toLowerCase(h) = <<"u", "s", "e", "r", "n", "a", "m", "e">>

isStudentIdHeader(h) ==
    LET lower == toLowerCase(h)
    IN  lower = <<"u", "s", "e", "r", "n", "a", "m", "e">> \/ lower = <<"e", "m", "i", "s", "_", "i", "d">> \/ includes(lower, <<"s", "t", "u", "d", "e", "n", "t", " ", "i", "d">>)

isStudentNotSchool(h) ==
    includes(toLowerCase(h), <<"s", "t", "u", "d", "e", "n", "t">>) /\ ~includes(toLowerCase(h), <<"s", "c", "h", "o", "o", "l">>)

isSchoolName(h) ==
    LET lower == toLowerCase(h)
    IN  includes(lower, <<"s", "c", "h", "o", "o", "l">>) /\ includes(lower, <<"n", "a", "m", "e">>)

isUdsieCode(h) ==
    LET lower == toLowerCase(h)
    IN  includes(lower, <<"u", "d", "s", "i", "e">>)
            \/ (includes(lower, <<"s", "c", "h", "o", "o", "l">>) /\ includes(lower, <<"c", "o", "d", "e">>)
                    /\ ~includes(lower, <<"o", "p", "e", "n", "g", "r", "a", "d">>))

isEmisId(h) ==
    toLowerCase(h) = <<"e", "m", "i", "s", "_", "i", "d">> \/ includes(toLowerCase(h), <<"e", "m", "i", "s">>)

isStudentName(h) ==
    LET lower == toLowerCase(h)
    IN  includes(lower, <<"s", "t", "u", "d", "e", "n", "t">>) /\ includes(lower, <<"n", "a", "m", "e">>)
            /\ ~includes(lower, <<"s", "c", "h", "o", "o", "l">>)

\* "opengrad school code" column, else the first column with "school"
schoolIdIndexOf(header) ==
    LET first == findIndex(header, isOpengradSchoolCode)
    IN  IF first = -1 THEN findIndex(header, isSchool) ELSE first

isStudentId(h) == includes(toLowerCase(h), <<"s", "t", "u", "d", "e", "n", "t", " ", "i", "d">>)

\* a resolution that tries username, then emis, then "student id", then the
\* fallback, each over the whole header
studentIdIndexCascade(header) ==
    IF findIndex(header, isUserName) # -1 THEN findIndex(header, isUserName)
    ELSE IF findIndex(header, isEmisId) # -1 THEN findIndex(header, isEmisId)
    ELSE IF findIndex(header, isStudentId) # -1 THEN findIndex(header, isStudentId)
    ELSE findIndex(header, isStudentNotSchool)

\* username / emis_id / "student id" column, else the first column with
\* "student" and without "school"
studentIdIndexOf(header) ==
    LET first == findIndex(header, isStudentIdHeader)
    IN  IF first = -1 THEN findIndex(header, isStudentNotSchool) ELSE first

---------------------------------------------------------------------------
(* buildStudentLookupMap: UserName -> {schoolName, schoolCode, udsieCode, emisId} *)

lookupField(row, idx) == IF idx # -1 THEN TrimOrEmpty(At(row, idx)) ELSE <<>>

buildStudentLookupMap(masterData) ==
    IF masterData = <<>> THEN <<>>
    ELSE LET header == masterData[1]
             userNameIndex == findIndex(header, isUserName)
             schoolNameIndex == findIndex(header, isSchoolName)
             schoolCodeIndex == findIndex(header, isOpengradSchoolCode)
             udsieCodeIndex == findIndex(header, isUdsieCode)
             emisIdIndex == findIndex(header, isEmisId)
             keyed == {i \in 2..Len(masterData) :
                          /\ masterData[i] # <<>>
                          /\ TrimOrEmpty(At(masterData[i], userNameIndex)) # <<>>}
             keyOf(i) == TrimOrEmpty(At(masterData[i], userNameIndex))
             lastRow(u) == masterData[Max({i \in keyed : keyOf(i) = u})]
         IN  IF userNameIndex = -1 THEN <<>>
             ELSE [u \in {keyOf(i) : i \in keyed} |->
                      [userName |-> u,
                       schoolName |-> lookupField(lastRow(u), schoolNameIndex),
                       schoolCode |-> lookupField(lastRow(u), schoolCodeIndex),
                       udsieCode |-> lookupField(lastRow(u), udsieCodeIndex),
                       emisId |-> lookupField(lastRow(u), emisIdIndex)]]

---------------------------------------------------------------------------
(* findStudentById, findStudentInMaster *)

studentRecord(row, studentIdIndex, schoolIdIndex) ==
    [t |-> "student",
     studentId |-> At(row, studentIdIndex),
     schoolId |-> At(row, schoolIdIndex)]

lastRowOf(S) == Max(S)

\* the for loop returns at the first row, in row order, of the matching rows S
firstRow(S) == Min(S)

findStudentById(masterData, studentId) ==
    IF masterData = <<>> THEN Null
    ELSE LET header == masterData[1]
             schoolIdIndex == schoolIdIndexOf(header)
             studentIdIndex == studentIdIndexOf(header)
             hits == {i \in 2..Len(masterData) :
                         OptTrim(At(masterData[i], studentIdIndex)) = Str(studentId)}
         IN  IF schoolIdIndex = -1 \/ studentIdIndex = -1 THEN Null
             ELSE IF hits = {} THEN Null
             ELSE studentRecord(masterData[firstRow(hits)], studentIdIndex, schoolIdIndex)

findStudentInMaster(masterData, studentId, schoolId) ==
    IF masterData = <<>> THEN Null
    ELSE LET header == masterData[1]
             schoolIdIndex == schoolIdIndexOf(header)
             studentIdIndex == studentIdIndexOf(header)
             hits == {i \in 2..Len(masterData) :
                         /\ OptTrim(At(masterData[i], studentIdIndex)) = Str(studentId)
                         /\ OptTrim(At(masterData[i], schoolIdIndex)) = Str(schoolId)}
         IN  IF schoolIdIndex = -1 \/ studentIdIndex = -1 THEN Null
             ELSE IF hits = {} THEN Null
             ELSE studentRecord(masterData[firstRow(hits)], studentIdIndex, schoolIdIndex)

---------------------------------------------------------------------------
(* findStudentInTestSheet *)

isLearnerDetails(h) ==
    LET lower == toLowerCase(h)
    IN  includes(lower, <<"l", "e", "a", "r", "n", "e", "r">>) /\ includes(lower, <<"d", "e", "t", "a", "i", "l", "s">>)

isStudent(h) == includes(toLowerCase(h), <<"s", "t", "u", "d", "e", "n", "t">>)

\* the three checks of one identifier cell against studentId
rowMatchesExactOnly(rowStudentId, userName, studentId) ==
    ~Falsy(rowStudentId) /\ rowStudentId = Str(studentId)

rowMatches(rowStudentId, userName, studentId) ==
    /\ ~Falsy(rowStudentId)
    /\ \/ rowStudentId = Str(studentId)
       \/ includes(rowStudentId.v, studentId)
       \/ userName = Str(studentId)

\* studentData[col] = row[idx] || '' for every header column (a repeated
\* header keeps the value of its last column)
rowFields(header, row) ==
    [col \in Range(header) |->
        LET idx == Max({i \in 1..Len(header) : header[i] = col}) - 1
        IN  IF Falsy(At(row, idx)) THEN <<>> ELSE At(row, idx).v]

findStudentInTestSheet(testData, studentId, masterData) ==
    IF testData = <<>> THEN Null
    ELSE LET header == testData[1]
             learnerDetailsIndex == findIndex(header, isLearnerDetails)
             studentIdIndex ==
                 IF learnerDetailsIndex = -1 THEN findIndex(header, isStudent) ELSE -1
             studentLookupMap == buildStudentLookupMap(masterData)
             rowStudentId(row) ==
                 IF learnerDetailsIndex # -1
                 THEN OptTrim(At(row, learnerDetailsIndex))
                 ELSE OptTrim(At(row, studentIdIndex))
             userName(row) ==
                 IF learnerDetailsIndex # -1
                 THEN extractUsernameFromLearnerDetails(rowStudentId(row))
                 ELSE rowStudentId(row)
             hits == {i \in 2..Len(testData) :
                         rowMatches(rowStudentId(testData[i]), userName(testData[i]),
                                    studentId)}
             row == testData[firstRow(hits)]
             enriched ==
                 IF ~Falsy(userName(row)) /\ userName(row).v \in DOMAIN studentLookupMap
                 THEN LET mappingData == studentLookupMap[userName(row).v]
                      IN  [t |-> "enriched",
                           schoolName |-> mappingData.schoolName,
                           openGradSchoolCode |-> mappingData.schoolCode,
                           udsieCode |-> mappingData.udsieCode,
                           emisId |-> mappingData.emisId]
                 ELSE Undefined
         IN  IF learnerDetailsIndex = -1 /\ studentIdIndex = -1 THEN Null
             ELSE IF hits = {} THEN Null
             ELSE [t |-> "studentData",
                   fields |-> rowFields(header, row),
                   enriched |-> enriched]

---------------------------------------------------------------------------
(* getStudentTests *)

isTestSheetCaseSensitive(name) == name # <<"m", "a", "p", "p", "i", "n", "g">> /\ name # <<"c", "o", "n", "f", "i", "g">>

isTestSheet(name) ==
    toLowerCase(name) # <<"m", "a", "p", "p", "i", "n", "g">> /\ toLowerCase(name) # <<"c", "o", "n", "f", "i", "g">>

\* allSheets.filter(...)
RECURSIVE filterTestSheets(_)
filterTestSheets(names) ==
    IF names = <<>> THEN <<>>
    ELSE IF isTestSheet(Head(names))
         THEN <<Head(names)>> \o filterTestSheets(Tail(names))
         ELSE filterTestSheets(Tail(names))

testEntryAlwaysAttended(name, studentData) ==
    [name |-> name, status |-> "Attended", hasData |-> TRUE]

testEntry(name, studentData) ==
    [name |-> name,
     status |-> IF studentData # Null THEN "Attended" ELSE "Absent",
     hasData |-> studentData # Null]

\* a result without an error property
NoError == ""

notFoundPartial(ss, studentId, schoolId) ==
    [error |-> "Student not found",
     student |-> Undefined,
     tests |-> [i \in 1..Len(filterTestSheets(getSheetNames(ss))) |->
                   testEntry(filterTestSheets(getSheetNames(ss))[i], Null)]]

studentNotFound(ss, studentId, schoolId) ==
    [error |-> IF ~Falsy(schoolId)
               THEN "Student not found or school ID mismatch"
               ELSE "Student not found",
     student |-> Undefined,
     tests |-> <<>>]

getStudentTests(ss, studentId, schoolId) ==
    LET student ==
            IF ~Falsy(schoolId)
            THEN findStudentInMaster(readSheet(ss, MappingName), studentId, schoolId.v)
            ELSE findStudentById(readSheet(ss, MappingName), studentId)
        testSheets == filterTestSheets(getSheetNames(ss))
    IN  IF student = Null THEN studentNotFound(ss, studentId, schoolId)
        ELSE IF listFails THEN Thrown("Failed to fetch sheet names")
        ELSE [error |-> NoError,
              student |-> [studentId |-> student.studentId,
                           schoolId |-> student.schoolId],
              tests |-> [i \in 1..Len(testSheets) |->
                            testEntry(testSheets[i],
                                      findStudentInTestSheet(
                                          readSheet(ss, testSheets[i]), studentId,
                                          readSheet(ss, MappingName)))]]

---------------------------------------------------------------------------
(* Numbers.  A score is kept in tenths (the cells of the model have at most *)
(* one fractional digit and no exponent), a percentage or an average in    *)
(* hundredths, so that Math.round(x * 100) / 100 is exact integer          *)
(* arithmetic.                                                             *)

DigitChars == <<"0","1","2","3","4","5","6","7","8","9">>

DigitOf == [c \in {DigitChars[i] : i \in 1..Len(DigitChars)} |->
               (CHOOSE i \in 1..Len(DigitChars) : DigitChars[i] = c) - 1]

isDigit(c) == c \in DOMAIN DigitOf

NaN == [nan |-> TRUE, tenths |-> 0]

Num(tenths) == [nan |-> FALSE, tenths |-> tenths]

\* the value of a sequence of digits
RECURSIVE digitsValue(_)
digitsValue(ds) ==
    IF ds = <<>> THEN 0
    ELSE digitsValue(SubSeq(ds, 1, Len(ds) - 1)) * Len(DigitChars) + DigitOf[ds[Len(ds)]]

\* the longest prefix of s made of digits
RECURSIVE digitPrefix(_)
digitPrefix(s) ==
    IF s # <<>> /\ isDigit(Head(s)) THEN <<Head(s)>> \o digitPrefix(Tail(s)) ELSE <<>>

\* parseFloat(x): leading white space skipped, optional sign, digits, optional
\* fraction; what follows the number is ignored; NaN when no number starts x
parseFloat(x) ==
    IF x.t # "string" THEN NaN
    ELSE LET s == trimStart(x.v)
             signed == s # <<>> /\ Head(s) \in {"-", "+"}
             sign == IF s # <<>> /\ Head(s) = "-" THEN -1 ELSE 1
             body == IF signed THEN Tail(s) ELSE s
             int == digitPrefix(body)
             rest == SubSeq(body, Len(int) + 1, Len(body))
             frac == IF rest # <<>> /\ Head(rest) = "." THEN digitPrefix(Tail(rest))
                     ELSE <<>>
             fracTenths == IF frac = <<>> THEN 0 ELSE DigitOf[frac[1]]
         IN  IF int = <<>> /\ frac = <<>> THEN NaN
             ELSE Num(sign * (digitsValue(int) * Len(DigitChars) + fracTenths))

\* parseFloat(row[idx]) || 0
parseFloatOr0(x) == LET n == parseFloat(x) IN IF n.nan THEN 0 ELSE n.tenths

truncDiv(a, b) == a \div b

\* Math.round(a / b) for a >= 0, b > 0: halves round up
roundDiv(a, b) == (2 * a + b) \div (2 * b)

RECURSIVE sumSeq(_)
sumSeq(s) == IF s = <<>> THEN 0 ELSE Head(s) + sumSeq(Tail(s))

---------------------------------------------------------------------------
(* getStudentsBySchool *)

\* schoolId.toString().trim().toUpperCase()
normalizeSchoolId(schoolId) == toUpperCase(trim(schoolId))

\* a roster that keeps the first row of every student only
getStudentsBySchoolDistinct(masterData, schoolId) ==
    IF masterData = <<>> THEN <<>>
    ELSE LET header == masterData[1]
             schoolIdIndex == schoolIdIndexOf(header)
             studentIdIndex == studentIdIndexOf(header)
             searchSchoolId == normalizeSchoolId(schoolId)
             inSchool(i) ==
                 /\ masterData[i] # <<>>
                 /\ toUpperCase(TrimOrEmpty(At(masterData[i], schoolIdIndex)))
                        = searchSchoolId
                 /\ TrimOrEmpty(At(masterData[i], studentIdIndex)) # <<>>
             isFirst(i) ==
                 /\ inSchool(i)
                 /\ \A j \in 2..(i - 1) :
                        inSchool(j) =>
                            At(masterData[j], studentIdIndex)
                                # At(masterData[i], studentIdIndex)
             rows == SelectSeq([i \in 1..(Len(masterData) - 1) |-> i + 1], isFirst)
         IN  IF schoolIdIndex = -1 \/ studentIdIndex = -1 THEN <<>>
             ELSE [i \in 1..Len(rows) |->
                      studentRecord(masterData[rows[i]], studentIdIndex,
                                    schoolIdIndex)]

getStudentsBySchool(masterData, schoolId) ==
    IF masterData = <<>> THEN <<>>
    ELSE LET header == masterData[1]
             schoolIdIndex == schoolIdIndexOf(header)
             studentIdIndex == studentIdIndexOf(header)
             searchSchoolId == normalizeSchoolId(schoolId)
             inSchool(row) ==
                 /\ row # <<>>
                 /\ toUpperCase(TrimOrEmpty(At(row, schoolIdIndex))) = searchSchoolId
                 /\ TrimOrEmpty(At(row, studentIdIndex)) # <<>>
             rows == SelectSeq(Tail(masterData), inSchool)
         IN  IF schoolIdIndex = -1 \/ studentIdIndex = -1 THEN <<>>
             ELSE [i \in 1..Len(rows) |->
                      studentRecord(rows[i], studentIdIndex, schoolIdIndex)]

---------------------------------------------------------------------------
(* Array.prototype.sort() of strings: by code unit, shorter prefix first *)

CodeOrder ==
    <<"\t", "\n", " ", "%", "+", "-", ".",
      "0","1","2","3","4","5","6","7","8","9", "@",
      "A","B","C","D","E","F","G","H","I","J","K","L","M",
      "N","O","P","Q","R","S","T","U","V","W","X","Y","Z", "_",
      "a","b","c","d","e","f","g","h","i","j","k","l","m",
      "n","o","p","q","r","s","t","u","v","w","x","y","z">>

CodeOf == [c \in {CodeOrder[i] : i \in 1..Len(CodeOrder)} |->
              CHOOSE i \in 1..Len(CodeOrder) : CodeOrder[i] = c]

RECURSIVE stringLeq(_, _)
stringLeq(a, b) ==
    IF a = <<>> THEN TRUE
    ELSE IF b = <<>> THEN FALSE
    ELSE IF Head(a) = Head(b) THEN stringLeq(Tail(a), Tail(b))
    ELSE CodeOf[Head(a)] < CodeOf[Head(b)]

RECURSIVE sortStrings(_)
sortStrings(S) ==
    IF S = {} THEN <<>>
    ELSE LET m == CHOOSE x \in S : \A y \in S : stringLeq(x, y)
         IN  <<m>> \o sortStrings(S \ {m})

---------------------------------------------------------------------------
(* getSchoolStats *)

AvailableIdsLimit == 10

TopPerformersLimit == 5

\* the sorted school ids without the slice(0, 10)
availableSchoolIdsUncut(masterData) ==
    IF masterData = <<>> THEN <<>>
    ELSE LET schoolIdIndex == schoolIdIndexOf(masterData[1])
         IN  IF schoolIdIndex = -1 THEN <<>>
             ELSE sortStrings({TrimOrEmpty(At(masterData[i], schoolIdIndex)) :
                                  i \in 2..Len(masterData)} \ {<<>>})

\* Array.from(schoolIdSet).sort().slice(0, 10)
availableSchoolIds(masterData) ==
    IF masterData = <<>> THEN <<>>
    ELSE LET schoolIdIndex == schoolIdIndexOf(masterData[1])
             ids == {TrimOrEmpty(At(masterData[i], schoolIdIndex)) :
                        i \in 2..Len(masterData)} \ {<<>>}
             sorted == sortStrings(ids)
         IN  IF schoolIdIndex = -1 THEN <<>>
             ELSE SubSeq(sorted, 1, IF Len(sorted) < AvailableIdsLimit
                                    THEN Len(sorted) ELSE AvailableIdsLimit)

\* { error, details, stats: null }: the error text names schoolId, the
\* details text ends with the available school ids, joined, when there are any
schoolNotFound(masterData, schoolId) ==
    [error |-> "School not found or has no students in the Mapping sheet",
     details |-> availableSchoolIds(masterData),
     stats |-> Null]

\* the catch block around getSheetNames: { error, details, stats: null }
sheetNamesFailed ==
    [error |-> "Failed to fetch sheet names", details |-> <<>>, stats |-> Null]

\* the rows of the school: their UserNames, and Student Name -> UserName
schoolRows(masterData, schoolId) ==
    LET header == masterData[1]
        userNameIndex == findIndex(header, isUserName)
        studentNameIndex == findIndex(header, isStudentName)
        schoolCodeIndex == findIndex(header, isOpengradSchoolCode)
    IN  IF userNameIndex # -1 /\ studentNameIndex # -1 /\ schoolCodeIndex # -1
        THEN {i \in 2..Len(masterData) :
                 /\ masterData[i] # <<>>
                 /\ toUpperCase(TrimOrEmpty(At(masterData[i], schoolCodeIndex)))
                        = normalizeSchoolId(schoolId)
                 /\ TrimOrEmpty(At(masterData[i], userNameIndex)) # <<>>}
        ELSE {}

studentUserNames(masterData, schoolId) ==
    LET userNameIndex == findIndex(masterData[1], isUserName)
    IN  {TrimOrEmpty(At(masterData[i], userNameIndex)) :
            i \in schoolRows(masterData, schoolId)}

studentNameToUserName(masterData, schoolId) ==
    LET header == masterData[1]
        userNameIndex == findIndex(header, isUserName)
        studentNameIndex == findIndex(header, isStudentName)
        nameOf(i) == TrimOrEmpty(At(masterData[i], studentNameIndex))
        named == {i \in schoolRows(masterData, schoolId) : nameOf(i) # <<>>}
    IN  [n \in {nameOf(i) : i \in named} |->
            TrimOrEmpty(At(masterData[Max({i \in named : nameOf(i) = n})],
                           userNameIndex))]

isScoreHeader(h) ==
    LET lower == toLowerCase(h)
    IN  includes(lower, <<"s", "c", "o", "r", "e">>) \/ includes(lower, <<"m", "a", "r", "k">>)
            \/ includes(lower, <<"t", "o", "t", "a", "l">>)

firstScoreIndexOnly(header) ==
    LET all == SelectSeq([i \in 1..Len(header) |-> i - 1],
                         LAMBDA idx : isScoreHeader(header[idx + 1]))
    IN  IF all = <<>> THEN <<>> ELSE <<all[1]>>

\* header.map(...).filter(...).map(({ idx }) => idx)
scoreIndices(header) ==
    SelectSeq([i \in 1..Len(header) |-> i - 1],
              LAMBDA idx : isScoreHeader(header[idx + 1]))

\* scoreIndices.reduce((sum, idx) => sum + (parseFloat(row[idx]) || 0), 0)
rowScore(row, indices) ==
    sumSeq([k \in 1..Len(indices) |-> parseFloatOr0(At(row, indices[k]))])

\* one iteration of the row loop: matched, the score, the id kept for the board
rowInfo(row, learnerDetailsIndex, studentIdIndex, indices, userNames, nameToUser, studentIds) ==
    LET learnerDetails == TrimOrEmpty(At(row, learnerDetailsIndex))
        ldUserName == extractUsernameFromLearnerDetails(Str(learnerDetails))
        rawId == OptTrim(At(row, studentIdIndex))
        byId == \E k \in 1..Len(studentIds) : Str(studentIds[k]) = rawId
        byName == /\ ~byId /\ ~Falsy(rawId)
                  /\ rawId.v \in DOMAIN nameToUser
                  /\ nameToUser[rawId.v] # <<>>
                  /\ nameToUser[rawId.v] \in userNames
        matched == IF learnerDetailsIndex # -1
                   THEN ~Falsy(ldUserName) /\ ldUserName.v \in userNames
                   ELSE byId \/ byName
        rowUserName == IF learnerDetailsIndex # -1 THEN ldUserName
                       ELSE IF byName THEN Str(nameToUser[rawId.v]) ELSE Null
        rowStudentId == IF learnerDetailsIndex # -1 THEN Str(learnerDetails) ELSE rawId
    IN  [matched |-> matched,
         score |-> IF matched THEN rowScore(row, indices) ELSE 0,
         studentId |-> IF ~Falsy(rowUserName) THEN rowUserName ELSE rowStudentId]

sortAscending(scores) ==
    LET RECURSIVE ins(_, _)
        ins(sorted, x) ==
            IF sorted = <<>> THEN <<x>>
            ELSE IF Head(sorted).score <= x.score
                 THEN <<Head(sorted)>> \o ins(Tail(sorted), x)
                 ELSE <<x>> \o sorted
        RECURSIVE go(_, _)
        go(done, todo) ==
            IF todo = <<>> THEN done ELSE go(ins(done, Head(todo)), Tail(todo))
    IN  go(<<>>, scores)

\* studentScores.sort((a, b) => b.score - a.score): descending, stable
sortByScoreDesc(scores) ==
    LET RECURSIVE ins(_, _)
        ins(sorted, x) ==
            IF sorted = <<>> THEN <<x>>
            ELSE IF Head(sorted).score >= x.score
                 THEN <<Head(sorted)>> \o ins(Tail(sorted), x)
                 ELSE <<x>> \o sorted
        RECURSIVE go(_, _)
        go(done, todo) ==
            IF todo = <<>> THEN done ELSE go(ins(done, Head(todo)), Tail(todo))
    IN  go(<<>>, scores)

sliceAll(scores) == scores

\* .slice(0, 5)
sliceTop(scores) ==
    SubSeq(scores, 1, IF Len(scores) < TopPerformersLimit
                      THEN Len(scores) ELSE TopPerformersLimit)

\* students.find(...)?.studentId || s.studentId
canonicalId(students, studentId) ==
    LET hits == {k \in 1..Len(students) :
                    OptTrim(students[k].studentId) = OptTrim(studentId)}
    IN  IF hits # {} /\ ~Falsy(students[Min(hits)].studentId)
        THEN students[Min(hits)].studentId
        ELSE studentId

topPerformers(students, studentScores) ==
    LET top == sliceTop(sortByScoreDesc(studentScores))
    IN  [k \in 1..Len(top) |->
            [studentId |-> canonicalId(students, top[k].studentId),
             score |-> top[k].score]]

\* the row loop of one test sheet: one record for each data row
rowLoop(testData, students, userNames, nameToUser) ==
    LET header == testData[1]
        learnerDetailsIndex == findIndex(header, isLearnerDetails)
        studentIdIndex ==
            IF learnerDetailsIndex = -1 THEN findIndex(header, isStudent) ELSE -1
        studentIds == [k \in 1..Len(students) |-> TrimOrEmpty(students[k].studentId)]
    IN  [i \in 1..(Len(testData) - 1) |->
            rowInfo(testData[i + 1], learnerDetailsIndex, studentIdIndex,
                    scoreIndices(header), userNames, nameToUser, studentIds)]

scoredRowsWithZero(rows) == SelectSeq(rows, LAMBDA r : r.matched)

\* the rows that pass "if (matched)" and "if (score > 0)"
scoredRows(rows) == SelectSeq(rows, LAMBDA r : r.matched /\ r.score > 0)

\* attendedCount, totalScore, scoreCount and studentScores after the row loop
tally(testSheet, indices, rows) ==
    [testName |-> testSheet,
     scoreIndices |-> indices,
     rows |-> rows,
     attendedCount |-> Len(SelectSeq(rows, LAMBDA r : r.matched)),
     totalScore |-> sumSeq([k \in 1..Len(scoredRows(rows)) |-> scoredRows(rows)[k].score]),
     scoreCount |-> Len(scoredRows(rows)),
     studentScores |-> [k \in 1..Len(scoredRows(rows)) |->
                           [studentId |-> scoredRows(rows)[k].studentId,
                            score |-> scoredRows(rows)[k].score]]]

\* the locals of one iteration of the test-sheet loop that reaches testStats.push
sheetLocals(testSheet, testData, students, userNames, nameToUser) ==
    tally(testSheet, scoreIndices(testData[1]),
          rowLoop(testData, students, userNames, nameToUser))

\* testStats.push({...})
testStat(l, students) ==
    [testName |-> l.testName,
     totalStudents |-> Len(students),
     attendedCount |-> l.attendedCount,
     attendancePercent |-> roundDiv(l.attendedCount * 100 * 100, Len(students)),
     avgScore |-> IF l.scoreCount > 0
                  THEN roundDiv(l.totalScore * 10, l.scoreCount)
                  ELSE 0,
     topPerformers |-> topPerformers(students, l.studentScores)]

\* a sheet is skipped when it is empty or has no identifier column
isProcessed(testData) ==
    /\ testData # <<>>
    /\ \/ findIndex(testData[1], isLearnerDetails) # -1
       \/ findIndex(testData[1], isStudent) # -1

\* the value of the first test in place of the mean
overallFirst(values) == IF values = <<>> THEN 0 ELSE values[1]

\* overall mean of a column of testStats, 0 for no test
overallMean(values) ==
    IF values = <<>> THEN 0 ELSE roundDiv(sumSeq(values), Len(values))

\* the value returned after the test-sheet loop
statsResult(schoolId, students, testStats) ==
    [error |-> NoError,
     details |-> <<>>,
     schoolId |-> schoolId,
     totalStudents |-> Len(students),
     overallStats |->
         [avgAttendance |->
              overallMean([k \in 1..Len(testStats) |-> testStats[k].attendancePercent]),
          avgScore |->
              overallMean([k \in 1..Len(testStats) |-> testStats[k].avgScore])],
     testStats |-> testStats]

\* a loop that ends at the first skipped sheet
sheetLoopUntilSkipped(ss, schoolId, students) ==
    LET masterData == readSheet(ss, MappingName)
        testSheets == filterTestSheets(getSheetNames(ss))
        processed ==
            SubSeq(testSheets, 1,
                   Max({m \in 0..Len(testSheets) :
                           \A j \in 1..m : isProcessed(readSheet(ss, testSheets[j]))}))
    IN  [k \in 1..Len(processed) |->
            sheetLocals(processed[k], readSheet(ss, processed[k]), students,
                        studentUserNames(masterData, schoolId),
                        studentNameToUserName(masterData, schoolId))]

\* the test-sheet loop: the locals of every iteration that is not skipped
sheetLoop(ss, schoolId, students) ==
    LET masterData == readSheet(ss, MappingName)
        testSheets == filterTestSheets(getSheetNames(ss))
        processed == SelectSeq(testSheets, LAMBDA n : isProcessed(readSheet(ss, n)))
    IN  [k \in 1..Len(processed) |->
            sheetLocals(processed[k], readSheet(ss, processed[k]), students,
                        studentUserNames(masterData, schoolId),
                        studentNameToUserName(masterData, schoolId))]

\* the value returned for the students of the school and the loop's locals
statsOf(masterData, schoolId, students, loop) ==
    IF students = <<>>
    THEN [result |-> schoolNotFound(masterData, schoolId), locals |-> <<>>]
    ELSE IF listFails THEN [result |-> sheetNamesFailed, locals |-> <<>>]
    ELSE [result |-> statsResult(schoolId, students,
                                 [k \in 1..Len(loop) |-> testStat(loop[k], students)]),
          locals |-> loop]

\* the whole of getSchoolStats for a non-empty schoolId: the returned value
\* and the locals of the test-sheet loop
schoolStatsRun(ss, schoolId) ==
    statsOf(readSheet(ss, MappingName), schoolId,
            getStudentsBySchool(readSheet(ss, MappingName), schoolId),
            sheetLoop(ss, schoolId,
                      getStudentsBySchool(readSheet(ss, MappingName), schoolId)))

getSchoolStats(ss, schoolId) == schoolStatsRun(ss, schoolId).result

---------------------------------------------------------------------------
(* enrichTestSheet, getTestDetails *)

schoolNameCol == <<"S", "c", "h", "o", "o", "l", " ", "N", "a", "m", "e">>

schoolCodeCol == <<"O", "p", "e", "n", "G", "r", "a", "d", " ", "S", "c", "h", "o", "o", "l", " ", "C", "o", "d", "e">>

udsieCodeCol == <<"U", "D", "S", "I", "E", " ", "C", "o", "d", "e">>

emisIdCol == <<"E", "M", "I", "S", " ", "I", "D">>

pushAlways(header, col) == Append(header, col)

\* if (!enrichedHeader.includes(col)) enrichedHeader.push(col)
pushIfMissing(header, col) ==
    IF \E i \in 1..Len(header) : header[i] = col THEN header ELSE Append(header, col)

enrichedHeader(header) ==
    pushIfMissing(
        pushIfMissing(pushIfMissing(pushIfMissing(header, schoolNameCol), schoolCodeCol),
                      udsieCodeCol),
        emisIdCol)

\* one iteration of the row loop: the row with four more cells
enrichRow(row, learnerDetailsIndex, studentLookupMap) ==
    LET learnerDetails == TrimOrEmpty(At(row, learnerDetailsIndex))
        userName == extractUsernameFromLearnerDetails(Str(learnerDetails))
    IN  IF ~Falsy(userName) /\ userName.v \in DOMAIN studentLookupMap
        THEN row \o <<studentLookupMap[userName.v].schoolName,
                      studentLookupMap[userName.v].schoolCode,
                      studentLookupMap[userName.v].udsieCode,
                      studentLookupMap[userName.v].emisId>>
        ELSE row \o <<<<>>, <<>>, <<>>, <<>>>>

enrichMatchedRows(testData, learnerDetailsIndex, studentLookupMap) ==
    LET all == [i \in 1..(Len(testData) - 1) |->
                   enrichRow(testData[i + 1], learnerDetailsIndex, studentLookupMap)]
    IN  SelectSeq(all, LAMBDA row : row[Len(row)] # <<>>)

\* for (let i = 1; i < testData.length; i++) ... enrichedData.push(row)
enrichRows(testData, learnerDetailsIndex, studentLookupMap) ==
    [i \in 1..(Len(testData) - 1) |->
        enrichRow(testData[i + 1], learnerDetailsIndex, studentLookupMap)]

enrichGrid(testData, masterData) ==
    IF testData = <<>> THEN testData
    ELSE IF findIndex(testData[1], isLearnerDetails) = -1 THEN testData
    ELSE <<enrichedHeader(testData[1])>>
             \o enrichRows(testData, findIndex(testData[1], isLearnerDetails),
                           buildStudentLookupMap(masterData))

enrichTestSheet(ss, testSheetName) ==
    enrichGrid(readSheet(ss, testSheetName), readSheet(ss, MappingName))

\* { testName, data: enrichedData, rowCount: enrichedData.length - 1 }
enrichedResponse(ss, testName) ==
    [testName |-> testName,
     data |-> enrichTestSheet(ss, testName),
     rowCount |-> Len(enrichTestSheet(ss, testName)) - 1]

\* { ...studentData } with the four enrichment fields under their column
\* names when the row was enriched
mergedData(studentData) ==
    IF studentData.enriched = Undefined THEN studentData.fields
    ELSE [col \in DOMAIN studentData.fields
                  \cup {schoolNameCol, schoolCodeCol, udsieCodeCol, emisIdCol} |->
             IF col = schoolNameCol THEN studentData.enriched.schoolName
             ELSE IF col = schoolCodeCol THEN studentData.enriched.openGradSchoolCode
             ELSE IF col = udsieCodeCol THEN studentData.enriched.udsieCode
             ELSE IF col = emisIdCol THEN studentData.enriched.emisId
             ELSE studentData.fields[col]]

testDetailsOf(testName, studentData) ==
    IF studentData = Null
    THEN [error |-> "Student not found in this test", data |-> Null]
    ELSE [error |-> NoError, testName |-> testName, data |-> mergedData(studentData)]

getTestDetails(ss, studentId, testName) ==
    testDetailsOf(testName,
                  findStudentInTestSheet(readSheet(ss, testName), studentId,
                                         readSheet(ss, MappingName)))

---------------------------------------------------------------------------
(* GET /api/debug/master *)

DebugIdsLimit == 50

DebugSampleLimit == 5

\* allSheets.find(predicate), or the fallback when no title passes
findName(found, fallback) == IF found # <<>> THEN found[1] ELSE fallback

\* the sheet taken for the mapping sheet: "mapping", "master", a title
\* containing "mapping", one containing "master", in any case; else 'Mapping'
masterSheetName(allSheets) ==
    findName(SelectSeq(allSheets, LAMBDA n : toLowerCase(n) = <<"m", "a", "p", "p", "i", "n", "g">>),
      findName(SelectSeq(allSheets, LAMBDA n : toLowerCase(n) = <<"m", "a", "s", "t", "e", "r">>),
        findName(SelectSeq(allSheets, LAMBDA n : includes(toLowerCase(n), <<"m", "a", "p", "p", "i", "n", "g">>)),
          findName(SelectSeq(allSheets, LAMBDA n : includes(toLowerCase(n), <<"m", "a", "s", "t", "e", "r">>)),
                   MappingName))))

\* Array.from(schoolIds).sort().slice(0, 50)
uniqueSchoolIds(masterData, schoolIdIndex) ==
    IF schoolIdIndex = -1 THEN <<>>
    ELSE LET sorted == sortStrings({TrimOrEmpty(At(masterData[i], schoolIdIndex)) :
                                       i \in 2..Len(masterData)} \ {<<>>})
         IN  SubSeq(sorted, 1, IF Len(sorted) < DebugIdsLimit
                               THEN Len(sorted) ELSE DebugIdsLimit)

\* masterData.slice(1, 6).map(row => ({ [col]: row[idx] || '' }))
sampleRows(masterData) ==
    [i \in 1..(IF Len(masterData) - 1 < DebugSampleLimit
               THEN Len(masterData) - 1 ELSE DebugSampleLimit) |->
        rowFields(masterData[1], masterData[i + 1])]

\* the body of the response once the sheet list is known (empty when the
\* listing failed)
debugBody(ss, allSheets) ==
    LET name == masterSheetName(allSheets)
        masterData == readSheet(ss, name)
        header == masterData[1]
    IN  IF readFails(ss, name)
        THEN [status |-> 500, error |-> "Failed to read Master sheet",
              availableSheets |-> allSheets, masterSheetName |-> name]
        ELSE IF masterData = <<>>
        THEN [status |-> 200, error |-> "Master sheet is empty or could not be read",
              rowCount |-> 0, headers |-> <<>>]
        ELSE [status |-> 200, error |-> NoError,
              rowCount |-> Len(masterData),
              availableSheets |-> allSheets,
              masterSheetName |-> name,
              headers |-> header,
              columnIndices |->
                  [schoolId |-> schoolIdIndexOf(header),
                   studentId |-> findIndex(header, isStudentNotSchool)],
              uniqueSchoolIds |-> uniqueSchoolIds(masterData, schoolIdIndexOf(header)),
              sampleRows |-> sampleRows(masterData)]

debugMaster(ss) == debugBody(ss, IF listFails THEN <<>> ELSE getSheetNames(ss))

---------------------------------------------------------------------------
(* The requests a call issues to the Google Sheets API, in order, and what *)
(* the API does to the spreadsheet on each of them.                        *)

\* sheets.spreadsheets.get({ spreadsheetId })
ListRequest == [method |-> "spreadsheets.get", range |-> <<>>]

ClearRequest(sheetName) == [method |-> "spreadsheets.values.clear", range |-> sheetName]

\* sheets.spreadsheets.values.get({ spreadsheetId, range: `${sheetName}!A:Z` })
ReadRequest(sheetName) == [method |-> "spreadsheets.values.get", range |-> sheetName]

ReadMethods == {"spreadsheets.get", "spreadsheets.values.get"}

\* the spreadsheet after the API has served one request: a get method
\* leaves it as it is, any other method rewrites the cells of the range
served(ss, request) ==
    IF request.method \in ReadMethods THEN ss
    ELSE [i \in 1..Len(ss) |->
             IF ss[i].name = request.range THEN [ss[i] EXCEPT !.values = <<>>]
             ELSE ss[i]]

RECURSIVE servedAll(_, _)
servedAll(ss, requests) ==
    IF requests = <<>> THEN ss
    ELSE servedAll(served(ss, Head(requests)), Tail(requests))

\* findStudentInTestSheet: the test sheet, then the mapping sheet for the
\* lookup map unless the sheet is empty or has no identifier column
testSheetRequests(ss, testSheetName) ==
    <<ReadRequest(testSheetName)>>
        \o (IF isProcessed(readSheet(ss, testSheetName))
            THEN <<ReadRequest(MappingName)>> ELSE <<>>)

RECURSIVE concat(_)
concat(seqs) == IF seqs = <<>> THEN <<>> ELSE Head(seqs) \o concat(Tail(seqs))

\* getStudentTests: the mapping sheet, the sheet list, every test sheet
studentTestsRequests(ss, studentId, schoolId) ==
    <<ReadRequest(MappingName)>>
        \o (IF getStudentTests(ss, studentId, schoolId).error = NoError
            THEN <<ListRequest>>
                     \o concat([i \in 1..Len(filterTestSheets(getSheetNames(ss))) |->
                                   testSheetRequests(
                                       ss, filterTestSheets(getSheetNames(ss))[i])])
            ELSE IF IsThrown(getStudentTests(ss, studentId, schoolId))
                 THEN <<ListRequest>>
                 ELSE <<>>)

\* getSchoolStats: the mapping sheet for the roster; again for the
\* available ids when the roster is empty; else the sheet list, the mapping
\* sheet twice (lookup map, UserNames) and every test sheet
schoolStatsRequests(ss, schoolId) ==
    <<ReadRequest(MappingName)>>
        \o (IF getStudentsBySchool(readSheet(ss, MappingName), schoolId) = <<>>
            THEN <<ReadRequest(MappingName)>>
            ELSE IF listFails THEN <<ListRequest>>
            ELSE <<ListRequest, ReadRequest(MappingName), ReadRequest(MappingName)>>
                     \o [i \in 1..Len(filterTestSheets(getSheetNames(ss))) |->
                            ReadRequest(filterTestSheets(getSheetNames(ss))[i])])

\* enrichTestSheet: the test sheet, then the mapping sheet for the lookup
\* map unless the sheet is empty or has no Learner Details column
enrichRequests(ss, testSheetName) ==
    <<ReadRequest(testSheetName)>>
        \o (IF readSheet(ss, testSheetName) # <<>>
               /\ findIndex(readSheet(ss, testSheetName)[1], isLearnerDetails) # -1
            THEN <<ReadRequest(MappingName)>> ELSE <<>>)

\* the debug endpoint: the sheet list, then the sheet taken for the mapping
\* sheet
debugRequests(ss) ==
    <<ListRequest,
      ReadRequest(masterSheetName(IF listFails THEN <<>> ELSE getSheetNames(ss)))>>

\* getTestDetails: what findStudentInTestSheet issues for the test
testDetailsRequests(ss, testName) == testSheetRequests(ss, testName)

---------------------------------------------------------------------------
(* Inputs of the extractKey specification *)

MaxCellLen == 4

KeyAlphabet == {"a", "b", "@", " "}

RECURSIVE SeqsUpTo(_, _)
SeqsUpTo(S, n) ==
    IF n = 0 THEN {<<>>}
    ELSE LET shorter == SeqsUpTo(S, n - 1)
         IN  shorter \cup {Append(s, c) : s \in {q \in shorter : Len(q) = n - 1}, c \in S}

ExampleCell == <<"T", "N", "1", "0", "1", "5", "2", "5", "7", "1", "7", "6", "@", "u", "s", "e", "r", "n", "a", "m", "e", ".", "c", "o", "m">>

ExampleKey == <<"T", "N", "1", "0", "1", "5", "2", "5", "7", "1", "7", "6">>

PlainCell == <<"P", "L", "A", "I", "N", "I", "D">>

KeyInputs ==
    {Undefined} \cup {Str(s) : s \in SeqsUpTo(KeyAlphabet, MaxCellLen)}
                \cup {Str(ExampleCell), Str(PlainCell)}

NoCall == [op |-> "none"]

InitKey ==
    /\ sheets = <<>>
    /\ call \in {[op |-> "pending", cell |-> c] : c \in KeyInputs}
    /\ result = Undefined
    /\ locals = <<>>
    /\ accessor = Healthy
    /\ sheetMetadata = Null
    /\ issued = <<>>
    /\ earlier = Null
    /\ server = Ready
    /\ dashboard = Unmounted

ExtractKey ==
    /\ call.op = "pending"
    /\ call' = [op |-> "extractKey", cell |-> call.cell]
    /\ result' = extractUsernameFromLearnerDetails(call.cell)
    /\ UNCHANGED <<sheets, locals, accessor, sheetMetadata, issued, earlier, server, dashboard>>

NextKey == ExtractKey

SpecKey == InitKey /\ [][NextKey]_vars

---------------------------------------------------------------------------
(* Inputs of the column-resolution specification *)

MaxHeaderLen == 3

\* header cells: the three identifier names, a cell that contains "emis"
\* without being emis_id, the two kinds of "student" cells, and another cell
HeaderCellPool ==
    {<<"U", "s", "e", "r", "N", "a", "m", "e">>, <<"e", "m", "i", "s", "_", "i", "d">>, <<"E", "m", "i", "s", " ", "N", "o">>, <<"S", "t", "u", "d", "e", "n", "t", " ", "I", "D">>, <<"S", "t", "u", "d", "e", "n", "t", " ", "N", "a", "m", "e">>,
     <<"S", "c", "h", "o", "o", "l", " ", "S", "t", "u", "d", "e", "n", "t">>, <<"C", "l", "a", "s", "s">>}

MappingHeaders == SeqsUpTo(HeaderCellPool, MaxHeaderLen)

InitColumns ==
    /\ sheets = <<>>
    /\ call \in {[op |-> "pending", header |-> h] : h \in MappingHeaders}
    /\ result = Undefined
    /\ locals = <<>>
    /\ accessor = Healthy
    /\ sheetMetadata = Null
    /\ issued = <<>>
    /\ earlier = Null
    /\ server = Ready
    /\ dashboard = Unmounted

\* the resolution of studentIdIndex in findStudentById, findStudentInMaster
\* and getStudentsBySchool
ResolveStudentIdIndex ==
    /\ call.op = "pending"
    /\ call' = [op |-> "studentIdIndex", header |-> call.header]
    /\ result' = studentIdIndexOf(call.header)
    /\ UNCHANGED <<sheets, locals, accessor, sheetMetadata, issued, earlier, server, dashboard>>

NextColumns == ResolveStudentIdIndex

SpecColumns == InitColumns /\ [][NextColumns]_vars

---------------------------------------------------------------------------
(* Spreadsheets and requests of the student-tests specification *)

MaxMapRows == 3

MaxSheets == 3

Sheet(name, values) == [name |-> name, values |-> values]

STU001 == <<"S", "T", "U", "0", "0", "1">>

STU002 == <<"S", "T", "U", "0", "0", "2">>

SCHOOL001 == <<"S", "C", "H", "O", "O", "L", "0", "0", "1">>

SCHOOL002 == <<"S", "C", "H", "O", "O", "L", "0", "0", "2">>

\* the mapping sheet of the setup guide
GuideHeader == <<<<"S", "c", "h", "o", "o", "l", " ", "I", "D">>, <<"S", "t", "u", "d", "e", "n", "t", " ", "I", "D">>>>

GuideMapping ==
    <<GuideHeader, <<SCHOOL001, STU001>>, <<SCHOOL001, STU002>>,
      <<SCHOOL002, <<"S", "T", "U", "0", "0", "3">>>>>>

\* mapping headers: both columns, no school column, no student column
MasterHeaders ==
    {GuideHeader, <<<<"C", "a", "m", "p", "u", "s">>, <<"U", "s", "e", "r", "N", "a", "m", "e">>>>, <<<<"S", "c", "h", "o", "o", "l", " ", "I", "D">>, <<"N", "a", "m", "e">>>>}

MasterRowPool ==
    {<<SCHOOL001, STU001>>, <<SCHOOL001, STU002>>, <<SCHOOL002, <<"S", "T", "U", "0", "0", "3">>>>,
     <<SCHOOL002, STU001>>, <<<<" ", "S", "C", "H", "O", "O", "L", "0", "0", "1", " ">>, <<" ", "S", "T", "U", "0", "0", "1", " ">>>>,
     <<<<"s", "c", "h", "o", "o", "l", "0", "0", "1">>, STU001>>, <<SCHOOL001>>}

AptitudeSheet ==
    Sheet(<<"A", "p", "t", "i", "t", "u", "d", "e", " ", "T", "e", "s", "t">>, <<<<<<"S", "t", "u", "d", "e", "n", "t", " ", "I", "D">>, <<"S", "c", "o", "r", "e">>>>, <<STU001, <<"8", "5">>>>>>)

\* the mapping sheet varies, one test sheet holds STU001
MasterSpreadsheets ==
    {<<Sheet(MappingName, <<h>> \o rows), AptitudeSheet>> :
        h \in MasterHeaders, rows \in SeqsUpTo(MasterRowPool, MaxMapRows)}
    \cup {<<Sheet(MappingName, <<>>), AptitudeSheet>>, <<AptitudeSheet>>}

TestNamePool == {<<"C", "o", "n", "f", "i", "g">>, <<"T", "e", "s", "t", "1">>, <<"T", "e", "s", "t", "2">>, <<"T", "e", "s", "t", "3">>}

TestGridPool ==
    {<<<<<<"L", "e", "a", "r", "n", "e", "r", " ", "D", "e", "t", "a", "i", "l", "s">>, <<"S", "c", "o", "r", "e">>>>, <<<<"S", "T", "U", "0", "0", "1", "@", "u", "s", "e", "r", "n", "a", "m", "e", ".", "c", "o", "m">>, <<"8", "5">>>>>>,
     <<<<<<"S", "t", "u", "d", "e", "n", "t", " ", "I", "D">>, <<"S", "c", "o", "r", "e">>>>, <<<<"X", "S", "T", "U", "0", "0", "2", "-", "b">>, <<"7", "2">>>>>>,
     <<<<<<"N", "a", "m", "e">>, <<"S", "c", "o", "r", "e">>>>, <<STU001, <<"9", "0">>>>>>,
     <<<<<<"L", "E", "A", "R", "N", "E", "R", " ", "D", "E", "T", "A", "I", "L", "S">>, <<"S", "c", "o", "r", "e">>>>, <<<<"S", "T", "U", "0", "0", "3", "@", "u", "s", "e", "r", "n", "a", "m", "e", ".", "c", "o", "m">>, <<"1">>>>,
       <<<<" ", "S", "T", "U", "0", "0", "2", "@", "u", "s", "e", "r", "n", "a", "m", "e", ".", "c", "o", "m", " ">>, <<"5">>>>>>}

DistinctNames(ss) ==
    \A i, j \in 1..Len(ss) : ss[i].name = ss[j].name => i = j

\* the guide's mapping sheet, then up to MaxSheets further sheets; or an
\* empty sheet among them
TestSpreadsheets ==
    {<<Sheet(MappingName, GuideMapping)>> \o rest :
        rest \in {r \in SeqsUpTo({Sheet(n, g) : n \in TestNamePool, g \in TestGridPool},
                                 MaxSheets) : DistinctNames(r)}}
    \cup {<<Sheet(MappingName, GuideMapping), Sheet(<<"T", "e", "s", "t", "1">>, <<>>), Sheet(<<"T", "e", "s", "t", "2">>, g)>> :
             g \in TestGridPool}

StudentIdArgs == {STU001, STU002}

SchoolIdArgs == {Null, Str(SCHOOL001), Str(SCHOOL002)}

InitStudent ==
    /\ sheets \in MasterSpreadsheets \cup TestSpreadsheets
    /\ call = NoCall
    /\ result = Undefined
    /\ locals = <<>>
    /\ accessor = Healthy
    /\ sheetMetadata = Null
    /\ issued = <<>>
    /\ earlier = Null
    /\ server = Ready
    /\ dashboard = Unmounted

\* GET /api/student/tests
GetStudentTests ==
    /\ call = NoCall
    /\ \E studentId \in StudentIdArgs, schoolId \in SchoolIdArgs :
        /\ call' = [op |-> "getStudentTests", studentId |-> studentId,
                    schoolId |-> schoolId]
        /\ result' = getStudentTests(sheets, studentId, schoolId)
        /\ issued' = studentTestsRequests(sheets, studentId, schoolId)
    /\ sheets' = servedAll(sheets, issued')
    /\ UNCHANGED <<locals, accessor, sheetMetadata, earlier, server, dashboard>>

\* res.json(result): the response is sent and the server is idle again
Respond ==
    /\ call # NoCall
    /\ call' = NoCall
    /\ result' = Undefined
    /\ locals' = <<>>
    /\ issued' = <<>>
    /\ UNCHANGED <<sheets, accessor, sheetMetadata, earlier, server, dashboard>>

NextStudent == GetStudentTests \/ Respond

SpecStudent == InitStudent /\ [][NextStudent]_vars

---------------------------------------------------------------------------
(* Spreadsheets and requests of the school-statistics specification *)

MaxTestRows == 6

MaxShortRows == 3

\* a production mapping sheet: five students of school S1, one of S2
SchoolMapping ==
    <<<<<<"U", "s", "e", "r", "N", "a", "m", "e">>, <<"S", "t", "u", "d", "e", "n", "t", " ", "N", "a", "m", "e">>, <<"O", "p", "e", "n", "G", "r", "a", "d", " ", "S", "c", "h", "o", "o", "l", " ", "C", "o", "d", "e">>>>,
      <<<<"U", "1">>, <<"N", "1">>, <<"S", "1">>>>, <<<<"U", "2">>, <<"N", "2">>, <<"S", "1">>>>, <<<<"U", "3">>, <<"N", "3">>, <<"S", "1">>>>,
      <<<<"U", "4">>, <<"N", "4">>, <<"s", "1", " ">>>>, <<<<"U", "5">>, <<"N", "5">>, <<"S", "1">>>>, <<<<"U", "9">>, <<"N", "9">>, <<"S", "2">>>>>>

\* a mapping sheet in the setup guide's form: two students of school S1
SmallMapping ==
    <<<<<<"S", "c", "h", "o", "o", "l", " ", "I", "D">>, <<"S", "t", "u", "d", "e", "n", "t", " ", "I", "D">>>>, <<<<"S", "1">>, <<"U", "1">>>>, <<<<"S", "1">>, <<"U", "2">>>>,
      <<<<"S", "2">>, <<"U", "9">>>>>>

\* learner details, two score columns (Score, Total Marks) and one that is none
LearnerHeader == <<<<"L", "e", "a", "r", "n", "e", "r", " ", "D", "e", "t", "a", "i", "l", "s">>, <<"S", "c", "o", "r", "e">>, <<"T", "o", "t", "a", "l", " ", "M", "a", "r", "k", "s">>, <<"G", "r", "a", "d", "e">>>>

\* a "student" column, two score columns (MARKS, Total) around one that is none
StudentHeader == <<<<"S", "t", "u", "d", "e", "n", "t", " ", "I", "D">>, <<"M", "A", "R", "K", "S">>, <<"G", "r", "a", "d", "e">>, <<"T", "o", "t", "a", "l">>>>

\* rows of students of S1 with a score
ScoredRowPool ==
    {<<<<"U", "1", "@", "x", ".", "i", "o">>, <<"8", "5">>, <<"1", "0", "0">>, <<"9">>>>,
     <<<<" ", "U", "2", " ">>, <<"7", ".", "5">>, <<"a", "b", "c">>, <<"5", "x">>>>}

\* and a short row with score 0, a short row with the score of U2 under
\* LearnerHeader, and a row of a student of S2
TestRowPool ==
    ScoredRowPool
        \cup {<<<<"U", "3">>, <<"0">>>>, <<<<"U", "4">>, <<"7", ".", "5">>>>, <<<<"U", "9">>, <<"5", "0">>, <<"5", "0">>, <<"B">>>>}

SecondSheetPool ==
    {<<LearnerHeader, <<<<"U", "2", "@", "x", ".", "i", "o">>, <<"4", "0">>, <<"6", "0">>>>>>,
     <<<<<<"N", "a", "m", "e">>, <<"S", "c", "o", "r", "e">>>>, <<<<"U", "1">>, <<"9", "0">>>>>>,
     <<>>}

\* a mapping sheet of twelve schools, some named twice or with spaces around
ManySchoolsMapping ==
    <<GuideHeader,
      <<<<"K", "0", "7">>, <<"U", "1">>>>, <<<<"K", "0", "3">>, <<"U", "2">>>>, <<<<" ", "K", "1", "1", " ">>, <<"U", "3">>>>, <<<<"K", "0", "1">>, <<"U", "4">>>>,
      <<<<"K", "0", "9">>, <<"U", "5">>>>, <<<<"K", "0", "3">>, <<"U", "6">>>>, <<<<"K", "0", "5">>, <<"U", "7">>>>, <<<<"K", "0", "2">>>>,
      <<<<" ">>, <<"U", "8">>>>, <<<<"K", "1", "0">>, <<"U", "9">>>>, <<<<"K", "0", "4">>, <<"U", "1">>>>, <<<<"K", "0", "8", " ">>, <<"U", "2">>>>,
      <<<<"K", "0", "6">>, <<"U", "3">>>>, <<<<"k", "0", "1">>, <<"U", "4">>>>, <<<<"K", "0", "0">>, <<"U", "5">>>>>>

\* a header with a school column and no student column
SchoolOnlyHeader == <<<<"S", "c", "h", "o", "o", "l", " ", "I", "D">>, <<"N", "a", "m", "e">>>>

\* mapping rows: students of S1 under several spellings, a row of S1 with a
\* blank student cell, one that ends before it, and a student of S2
RosterRowPool ==
    {<<<<"S", "1">>, <<"U", "1">>>>, <<<<" ", "s", "1", " ">>, <<"U", "2">>>>, <<<<"S", "1">>, <<" ">>>>, <<<<"S", "1">>>>,
     <<<<"S", "2">>, <<"U", "9">>>>}

\* a test sheet with rows of U1 and U2
RosterTest == <<StudentHeader, <<<<"U", "1">>, <<"8">>>>, <<<<"U", "2">>, <<"7", ".", "5">>>>>>

\* a mapping sheet with a username and an opengrad school-code column and no
\* student-name column
BareMapping ==
    <<<<<<"U", "s", "e", "r", "N", "a", "m", "e">>, <<"O", "p", "e", "n", "G", "r", "a", "d", " ", "S", "c", "h", "o", "o", "l", " ", "C", "o", "d", "e">>>>,
      <<<<"U", "1">>, <<"S", "1">>>>, <<<<" ", "U", "2", " ">>, <<" ", "s", "1">>>>, <<<<"U", "9">>, <<"S", "2">>>>>>

\* a test sheet without an identifier column
NoIdentifierTest == <<<<<<"N", "a", "m", "e">>, <<"S", "c", "o", "r", "e">>>>, <<<<"U", "1">>, <<"9", "0">>>>>>

\* long sheets of scored rows; short sheets of all rows under both headers;
\* two test sheets beside the small mapping sheet; the mapping sheet of many
\* schools; mapping sheets of up to MaxMapRows rows beside one test sheet; a
\* first test sheet with or without an identifier column beside a second one;
\* short sheets beside the mapping sheet without a student-name column
StatsSpreadsheets ==
    {<<Sheet(MappingName, SchoolMapping), Sheet(<<"T", "e", "s", "t", "1">>, <<LearnerHeader>> \o rows)>> :
        rows \in SeqsUpTo(ScoredRowPool, MaxTestRows)}
    \cup
    {<<Sheet(MappingName, SchoolMapping), Sheet(<<"T", "e", "s", "t", "1">>, <<h>> \o rows)>> :
        h \in {LearnerHeader, StudentHeader},
        rows \in SeqsUpTo(TestRowPool, MaxShortRows)}
    \cup
    {<<Sheet(MappingName, SmallMapping), Sheet(<<"T", "e", "s", "t", "1">>, <<StudentHeader>> \o rows),
       Sheet(<<"T", "e", "s", "t", "2">>, second)>> :
        rows \in SeqsUpTo(TestRowPool, MaxShortRows), second \in SecondSheetPool}
    \cup
    {<<Sheet(MappingName, ManySchoolsMapping), Sheet(<<"T", "e", "s", "t", "1">>, RosterTest)>>}
    \cup
    {<<Sheet(MappingName, <<h>> \o rows), Sheet(<<"T", "e", "s", "t", "1">>, RosterTest)>> :
        h \in {GuideHeader, SchoolOnlyHeader},
        rows \in SeqsUpTo(RosterRowPool, MaxMapRows)}
    \cup
    {<<Sheet(MappingName, SmallMapping), Sheet(<<"T", "e", "s", "t", "1">>, first),
       Sheet(<<"T", "e", "s", "t", "2">>, second)>> :
        first \in {RosterTest, NoIdentifierTest}, second \in SecondSheetPool}
    \cup
    {<<Sheet(MappingName, BareMapping), Sheet(<<"T", "e", "s", "t", "1">>, <<LearnerHeader>> \o rows)>> :
        rows \in SeqsUpTo(TestRowPool, MaxShortRows)}

SchoolIdStatsArgs == {<<"S", "1">>, <<"S", "7">>}

InitStats ==
    /\ sheets \in StatsSpreadsheets
    /\ call = NoCall
    /\ result = Undefined
    /\ locals = <<>>
    /\ accessor = Healthy
    /\ sheetMetadata = Null
    /\ issued = <<>>
    /\ earlier = Null
    /\ server = Ready
    /\ dashboard = Unmounted

\* GET /api/school/stats
GetSchoolStats ==
    /\ call = NoCall
    /\ \E schoolId \in SchoolIdStatsArgs :
        /\ call' = [op |-> "getSchoolStats", schoolId |-> schoolId]
        /\ result' = schoolStatsRun(sheets, schoolId).result
        /\ locals' = schoolStatsRun(sheets, schoolId).locals
        /\ issued' = schoolStatsRequests(sheets, schoolId)
    /\ sheets' = servedAll(sheets, issued')
    /\ UNCHANGED <<accessor, sheetMetadata, earlier, server, dashboard>>

NextStats == GetSchoolStats \/ Respond

SpecStats == InitStats /\ [][NextStats]_vars

---------------------------------------------------------------------------
(* Spreadsheets and requests of the enriched-sheet specification *)

MaxEnrichRows == 3

\* a mapping sheet with every column the lookup map reads
FullMapping ==
    <<<<<<"U", "s", "e", "r", "N", "a", "m", "e">>, <<"S", "t", "u", "d", "e", "n", "t", " ", "N", "a", "m", "e">>, <<"S", "c", "h", "o", "o", "l", " ", "N", "a", "m", "e">>, <<"O", "p", "e", "n", "G", "r", "a", "d", " ", "S", "c", "h", "o", "o", "l", " ", "C", "o", "d", "e">>,
        <<"U", "D", "S", "I", "E", " ", "C", "o", "d", "e">>, <<"E", "M", "I", "S", " ", "I", "D">>>>,
      <<<<"U", "1">>, <<"N", "1">>, <<"H", "i", "l", "l", " ", "S", "c", "h", "o", "o", "l">>, <<"S", "1">>, <<"D", "1">>, <<"E", "1">>>>,
      <<<<"U", "2">>, <<"N", "2">>, <<"H", "i", "l", "l", " ", "S", "c", "h", "o", "o", "l">>, <<"S", "1">>, <<"D", "1">>>>,
      <<<<"U", "9">>, <<"N", "9">>, <<"L", "a", "k", "e", " ", "S", "c", "h", "o", "o", "l">>, <<"S", "2">>, <<"D", "2">>, <<"E", "9">>>>>>

\* no enrichment column yet; one; all four; one in another case; no
\* Learner Details column
EnrichHeaders ==
    {<<<<"L", "e", "a", "r", "n", "e", "r", " ", "D", "e", "t", "a", "i", "l", "s">>, <<"S", "c", "o", "r", "e">>>>,
     <<<<"L", "e", "a", "r", "n", "e", "r", " ", "D", "e", "t", "a", "i", "l", "s">>, <<"U", "D", "S", "I", "E", " ", "C", "o", "d", "e">>, <<"S", "c", "o", "r", "e">>>>,
     <<<<"E", "M", "I", "S", " ", "I", "D">>, <<"l", "e", "a", "r", "n", "e", "r", " ", "d", "e", "t", "a", "i", "l", "s">>, <<"U", "D", "S", "I", "E", " ", "C", "o", "d", "e">>, <<"O", "p", "e", "n", "G", "r", "a", "d", " ", "S", "c", "h", "o", "o", "l", " ", "C", "o", "d", "e">>,
       <<"S", "c", "h", "o", "o", "l", " ", "N", "a", "m", "e">>>>,
     <<<<"L", "e", "a", "r", "n", "e", "r", " ", "D", "e", "t", "a", "i", "l", "s">>, <<"s", "c", "h", "o", "o", "l", " ", "n", "a", "m", "e">>>>,
     <<<<"S", "t", "u", "d", "e", "n", "t", " ", "I", "D">>, <<"S", "c", "o", "r", "e">>>>}

\* a student of the mapping sheet, one with an empty EMIS ID, one the
\* mapping sheet does not have, and a row without cells
EnrichRowPool ==
    {<<<<"U", "1", "@", "x", ".", "i", "o">>, <<"8", "5">>>>, <<<<" ", "U", "2", " ">>, <<"7", ".", "5">>>>, <<<<"U", "7", "@", "x", ".", "i", "o">>, <<"1", "0">>>>, <<>>}

EnrichSpreadsheets ==
    {<<Sheet(MappingName, FullMapping), Sheet(<<"T", "e", "s", "t", "1">>, <<h>> \o rows)>> :
        h \in EnrichHeaders, rows \in SeqsUpTo(EnrichRowPool, MaxEnrichRows)}
    \cup {<<Sheet(MappingName, FullMapping), Sheet(<<"T", "e", "s", "t", "1">>, <<>>)>>}

TestNameArgs == {<<"T", "e", "s", "t", "1">>, <<"T", "e", "s", "t", "9">>}

InitEnrich ==
    /\ sheets \in EnrichSpreadsheets
    /\ call = NoCall
    /\ result = Undefined
    /\ locals = <<>>
    /\ accessor = Healthy
    /\ sheetMetadata = Null
    /\ issued = <<>>
    /\ earlier = Null
    /\ server = Ready
    /\ dashboard = Unmounted

\* GET /api/test/enriched
GetEnrichedSheet ==
    /\ call = NoCall
    /\ \E testName \in TestNameArgs :
        /\ call' = [op |-> "enrichTestSheet", testName |-> testName]
        /\ result' = enrichedResponse(sheets, testName)
        /\ issued' = enrichRequests(sheets, testName)
    /\ sheets' = servedAll(sheets, issued')
    /\ UNCHANGED <<locals, accessor, sheetMetadata, earlier, server, dashboard>>

NextEnrich == GetEnrichedSheet \/ Respond

SpecEnrich == InitEnrich /\ [][NextEnrich]_vars

---------------------------------------------------------------------------
(* The whole service: every endpoint, on a Google Sheets API of which some *)
(* requests fail                                                           *)

\* STU001 is in school S1, STU002 in SCHOOL001
ServiceMapping ==
    <<<<<<"U", "s", "e", "r", "N", "a", "m", "e">>, <<"S", "t", "u", "d", "e", "n", "t", " ", "N", "a", "m", "e">>, <<"O", "p", "e", "n", "G", "r", "a", "d", " ", "S", "c", "h", "o", "o", "l", " ", "C", "o", "d", "e">>>>,
      <<STU001, <<"N", "1">>, <<"S", "1">>>>, <<STU002, <<"N", "2">>, SCHOOL001>>>>

ServiceTest1 ==
    <<LearnerHeader, <<<<"S", "T", "U", "0", "0", "1", "@", "x", ".", "i", "o">>, <<"8", "5">>, <<"1", "0", "0">>, <<"A">>>>,
      <<<<"S", "T", "U", "0", "0", "2", "@", "x", ".", "i", "o">>, <<"4", "0">>, <<"5", "0">>, <<"C">>>>>>

ServiceTest2 == <<StudentHeader, <<STU001, <<"7", ".", "5">>, <<"B">>, <<"1", "0">>>>>>

ServiceSpreadsheets ==
    {<<Sheet(MappingName, ServiceMapping), Sheet(<<"T", "e", "s", "t", "1">>, ServiceTest1),
       Sheet(<<"C", "o", "n", "f", "i", "g">>, <<<<<<"K", "e", "y">>>>>>), Sheet(<<"T", "e", "s", "t", "2">>, ServiceTest2)>>,
     <<Sheet(<<"T", "e", "s", "t", "1">>, ServiceTest1), Sheet(<<"M", "a", "s", "t", "e", "r">>, ServiceMapping)>>,
     <<Sheet(MappingName, ServiceMapping)>>}

\* the failures of a run: the listing, reading the mapping sheet, reading Test1
AccessorModes ==
    {[list |-> l, read |-> r] : l \in BOOLEAN, r \in SUBSET {MappingName, <<"T", "e", "s", "t", "1">>}}

InitService ==
    /\ sheets \in ServiceSpreadsheets
    /\ call = NoCall
    /\ result = Undefined
    /\ locals = <<>>
    /\ accessor \in AccessorModes
    /\ sheetMetadata = Null
    /\ issued = <<>>
    /\ earlier = Null
    /\ server = Ready
    /\ dashboard = Unmounted

\* GET /api/student/test-details
GetTestDetails ==
    /\ call = NoCall
    /\ \E studentId \in StudentIdArgs, testName \in TestNameArgs :
        /\ call' = [op |-> "getTestDetails", studentId |-> studentId,
                    testName |-> testName]
        /\ result' = getTestDetails(sheets, studentId, testName)
        /\ issued' = testDetailsRequests(sheets, testName)
    /\ sheets' = servedAll(sheets, issued')
    /\ UNCHANGED <<locals, accessor, sheetMetadata, earlier, server, dashboard>>

\* GET /api/debug/master
GetDebugMaster ==
    /\ call = NoCall
    /\ call' = [op |-> "debugMaster"]
    /\ result' = debugMaster(sheets)
    /\ issued' = debugRequests(sheets)
    /\ sheets' = servedAll(sheets, issued')
    /\ UNCHANGED <<locals, accessor, sheetMetadata, earlier, server, dashboard>>

\* the response is sent, and the client keeps it to compare later ones with
Observe ==
    /\ call # NoCall
    /\ earlier = Null
    /\ earlier' = [call |-> call, result |-> result]
    /\ call' = NoCall
    /\ result' = Undefined
    /\ locals' = <<>>
    /\ issued' = <<>>
    /\ UNCHANGED <<sheets, accessor, sheetMetadata, server, dashboard>>

NextService ==
    \/ GetStudentTests
    \/ GetTestDetails
    \/ GetEnrichedSheet
    \/ GetSchoolStats
    \/ GetDebugMaster
    \/ Respond
    \/ Observe

SpecService == InitService /\ [][NextService]_vars

---------------------------------------------------------------------------
(* Spreadsheets of the test-details specification *)

MaxFindRows == 3

\* test-sheet headers: learner details, a "student" column, no identifier
FindHeaders ==
    {<<<<"L", "e", "a", "r", "n", "e", "r", " ", "D", "e", "t", "a", "i", "l", "s">>, <<"S", "c", "o", "r", "e">>>>, <<<<"S", "t", "u", "d", "e", "n", "t", " ", "I", "D">>, <<"S", "c", "o", "r", "e">>>>,
     <<<<"N", "a", "m", "e">>, <<"S", "c", "o", "r", "e">>>>}

\* identifier cells that equal STU001, contain it, yield it as their key
\* (with blanks around), belong to STU002, or are blank
FindRowPool ==
    {<<STU001, <<"8", "5">>>>, <<<<"X", "S", "T", "U", "0", "0", "1", "Y">>, <<"7", "2">>>>, <<<<" ", "S", "T", "U", "0", "0", "1", "@", "x", ".", "i", "o", " ">>, <<"9", "0">>>>,
     <<<<"S", "T", "U", "0", "0", "2", "@", "x", ".", "i", "o">>, <<"5">>>>, <<<<" ">>, <<"3">>>>}

DetailSpreadsheets ==
    {<<Sheet(MappingName, GuideMapping), Sheet(<<"T", "e", "s", "t", "1">>, <<h>> \o rows)>> :
        h \in FindHeaders, rows \in SeqsUpTo(FindRowPool, MaxFindRows)}

InitDetails ==
    /\ sheets \in DetailSpreadsheets
    /\ call = NoCall
    /\ result = Undefined
    /\ locals = <<>>
    /\ accessor = Healthy
    /\ sheetMetadata = Null
    /\ issued = <<>>
    /\ earlier = Null
    /\ server = Ready
    /\ dashboard = Unmounted

NextDetails == GetStudentTests \/ GetTestDetails \/ Respond \/ Observe

SpecDetails == InitDetails /\ [][NextDetails]_vars

---------------------------------------------------------------------------
(* The two aggregators step by step.  A request issues one API request     *)
(* after the other; `await` lets it go on only when the response of the    *)
(* request before has arrived.  issued holds the requests of the running   *)
(* call, locals.got the responses in the order of their arrival and        *)
(* locals.inflight the positions in issued that have no response yet.      *)
(* Meanwhile another party may edit the mapping sheet and the API may      *)
(* start or stop failing.                                                  *)

\* the response to a read: the values, [] after a failure (readSheet's catch)
Values(v) == [kind |-> "values", v |-> v]

\* the response to the listing: the sheet names, or the rethrown failure
Names(v) == [kind |-> "names", v |-> v]

ListFailed == [kind |-> "failed", v |-> <<>>]

respond(ss, request) ==
    IF request.method = "spreadsheets.get"
    THEN IF listFails THEN ListFailed ELSE Names(getSheetNames(ss))
    ELSE Values(readSheet(ss, request.range))

\* no further request: the function returns
Done == [method |-> "none", range |-> <<>>]

\* `await`: the continuation runs when no response is outstanding
notAwaited(inflight) == TRUE

awaited(inflight) == inflight = {}

\* getSchoolStats: the request that follows the responses got so far
nextStatsRequest(schoolId, got) ==
    IF got = <<>> THEN ReadRequest(MappingName)
    ELSE IF getStudentsBySchool(got[1].v, schoolId) = <<>>
         THEN IF Len(got) = 1 THEN ReadRequest(MappingName) ELSE Done
    ELSE IF Len(got) = 1 THEN ListRequest
    ELSE IF got[2].kind = "failed" THEN Done
    ELSE IF Len(got) \in {2, 3} THEN ReadRequest(MappingName)
    ELSE IF got[4].v = <<>> THEN Done
    ELSE IF Len(got) - 4 < Len(filterTestSheets(got[2].v))
         THEN ReadRequest(filterTestSheets(got[2].v)[Len(got) - 3])
    ELSE Done

\* masterData[0] of an empty masterData is undefined: header.findIndex throws
\* and the outer catch returns { error: 'Unexpected error: ...', stats: null }
unexpectedError == [error |-> "Unexpected error", details |-> <<>>, stats |-> Null]

\* getSchoolStats: the value returned for the responses got
statsOutcome(schoolId, got) ==
    IF getStudentsBySchool(got[1].v, schoolId) = <<>>
    THEN schoolNotFound(got[2].v, schoolId)
    ELSE IF got[2].kind = "failed" THEN sheetNamesFailed
    ELSE IF got[4].v = <<>> THEN unexpectedError
    ELSE LET students == getStudentsBySchool(got[1].v, schoolId)
             testSheets == filterTestSheets(got[2].v)
             processed == SelectSeq([k \in 1..Len(testSheets) |-> k],
                                    LAMBDA k : isProcessed(got[4 + k].v))
         IN  statsResult(schoolId, students,
                 [j \in 1..Len(processed) |->
                     testStat(sheetLocals(testSheets[processed[j]],
                                          got[4 + processed[j]].v, students,
                                          studentUserNames(got[4].v, schoolId),
                                          studentNameToUserName(got[4].v, schoolId)),
                              students)])

\* the student of getStudentTests in the mapping values read first
studentIn(masterData, studentId, schoolId) ==
    IF ~Falsy(schoolId) THEN findStudentInMaster(masterData, studentId, schoolId.v)
    ELSE findStudentById(masterData, studentId)

\* the test-sheet loop of getStudentTests: findStudentInTestSheet reads the
\* sheet and, when it has rows and an identifier column, the mapping sheet
RECURSIVE nextTestRequest(_, _)
nextTestRequest(testSheets, got) ==
    IF testSheets = <<>> THEN Done
    ELSE IF got = <<>> THEN ReadRequest(Head(testSheets))
    ELSE IF ~isProcessed(got[1].v) THEN nextTestRequest(Tail(testSheets), Tail(got))
    ELSE IF Len(got) = 1 THEN ReadRequest(MappingName)
    ELSE nextTestRequest(Tail(testSheets), Tail(Tail(got)))

RECURSIVE testEntries(_, _, _)
testEntries(testSheets, got, studentId) ==
    IF testSheets = <<>> THEN <<>>
    ELSE IF ~isProcessed(got[1].v)
         THEN <<testEntry(Head(testSheets), Null)>>
                  \o testEntries(Tail(testSheets), Tail(got), studentId)
    ELSE <<testEntry(Head(testSheets),
                     findStudentInTestSheet(got[1].v, studentId, got[2].v))>>
             \o testEntries(Tail(testSheets), Tail(Tail(got)), studentId)

\* getStudentTests: the request that follows the responses got so far
nextTestsRequest(studentId, schoolId, got) ==
    IF got = <<>> THEN ReadRequest(MappingName)
    ELSE IF studentIn(got[1].v, studentId, schoolId) = Null THEN Done
    ELSE IF Len(got) = 1 THEN ListRequest
    ELSE IF got[2].kind = "failed" THEN Done
    ELSE nextTestRequest(filterTestSheets(got[2].v), SubSeq(got, 3, Len(got)))

\* getStudentTests: the value returned, or the exception thrown
testsOutcome(studentId, schoolId, got) ==
    IF studentIn(got[1].v, studentId, schoolId) = Null
    THEN studentNotFound(<<>>, studentId, schoolId)
    ELSE IF got[2].kind = "failed" THEN Thrown("Failed to fetch sheet names")
    ELSE [error |-> NoError,
          student |-> [studentId |-> studentIn(got[1].v, studentId, schoolId).studentId,
                       schoolId |-> studentIn(got[1].v, studentId, schoolId).schoolId],
          tests |-> testEntries(filterTestSheets(got[2].v), SubSeq(got, 3, Len(got)),
                                studentId)]

nextRequest(c, got) ==
    IF c.op = "getSchoolStats" THEN nextStatsRequest(c.schoolId, got)
    ELSE nextTestsRequest(c.studentId, c.schoolId, got)

outcome(c, got) ==
    IF c.op = "getSchoolStats" THEN statsOutcome(c.schoolId, got)
    ELSE testsOutcome(c.studentId, c.schoolId, got)

\* the mapping sheet before and after an edit by another party: STU002
\* changes school, a student of S1 is added
EditedMapping ==
    <<<<<<"U", "s", "e", "r", "N", "a", "m", "e">>, <<"S", "t", "u", "d", "e", "n", "t", " ", "N", "a", "m", "e">>, <<"O", "p", "e", "n", "G", "r", "a", "d", " ", "S", "c", "h", "o", "o", "l", " ", "C", "o", "d", "e">>>>,
      <<STU001, <<"N", "1">>, <<"S", "1">>>>, <<STU002, <<"N", "2">>, <<"S", "1">>>>, <<<<"S", "T", "U", "0", "0", "3">>, <<"N", "3">>, <<"S", "1">>>>>>

MappingVersions == {ServiceMapping, EditedMapping}

StepSpreadsheets ==
    {<<Sheet(MappingName, m), Sheet(<<"T", "e", "s", "t", "1">>, ServiceTest1),
       Sheet(<<"C", "o", "n", "f", "i", "g">>, <<<<<<"K", "e", "y">>>>>>), Sheet(<<"T", "e", "s", "t", "2">>, ServiceTest2)>> :
        m \in MappingVersions}

\* the API works, fails to read the mapping sheet, or fails to list
StepModes ==
    {Healthy, [list |-> FALSE, read |-> {MappingName}], [list |-> TRUE, read |-> {}]}

Idle == [got |-> <<>>, inflight |-> {}]

InitSteps ==
    /\ sheets \in StepSpreadsheets
    /\ call = NoCall
    /\ result = Undefined
    /\ locals = Idle
    /\ accessor = Healthy
    /\ sheetMetadata = Null
    /\ issued = <<>>
    /\ earlier = Null
    /\ server = Ready
    /\ dashboard = Unmounted

\* GET /api/student/tests arrives
StartStudentTests ==
    /\ call = NoCall
    /\ \E studentId \in StudentIdArgs, schoolId \in {Null, Str(SCHOOL001)} :
          call' = [op |-> "getStudentTests", studentId |-> studentId,
                   schoolId |-> schoolId]
    /\ UNCHANGED <<sheets, result, locals, accessor, sheetMetadata, issued, earlier, server, dashboard>>

\* GET /api/school/stats arrives
StartSchoolStats ==
    /\ call = NoCall
    /\ \E schoolId \in SchoolIdStatsArgs :
          call' = [op |-> "getSchoolStats", schoolId |-> schoolId]
    /\ UNCHANGED <<sheets, result, locals, accessor, sheetMetadata, issued, earlier, server, dashboard>>

\* the running call issues its next API request
IssueRequest ==
    /\ call # NoCall /\ result = Undefined
    /\ awaited(locals.inflight)
    /\ nextRequest(call, locals.got) # Done
    /\ issued' = Append(issued, nextRequest(call, locals.got))
    /\ locals' = [locals EXCEPT !.inflight = @ \cup {Len(issued) + 1}]
    /\ UNCHANGED <<sheets, call, result, accessor, sheetMetadata, earlier, server, dashboard>>

\* the API answers an outstanding request from the spreadsheet as it is now
ResponseArrives ==
    /\ \E k \in locals.inflight :
          /\ locals' = [got |-> Append(locals.got, respond(sheets, issued[k])),
                        inflight |-> locals.inflight \ {k}]
          /\ sheets' = served(sheets, issued[k])
    /\ UNCHANGED <<call, result, accessor, sheetMetadata, issued, earlier, server, dashboard>>

\* the function returns (or throws) and the route handler has its result
Return ==
    /\ call # NoCall /\ result = Undefined
    /\ awaited(locals.inflight)
    /\ nextRequest(call, locals.got) = Done
    /\ result' = outcome(call, locals.got)
    /\ UNCHANGED <<sheets, call, locals, accessor, sheetMetadata, issued, earlier, server, dashboard>>

\* res.json(result)
SendResponse ==
    /\ call # NoCall /\ result # Undefined
    /\ call' = NoCall
    /\ result' = Undefined
    /\ locals' = Idle
    /\ issued' = <<>>
    /\ UNCHANGED <<sheets, accessor, sheetMetadata, earlier, server, dashboard>>

\* another party edits the mapping sheet
EditMapping ==
    /\ \E m \in MappingVersions \ {sheets[1].values} :
          sheets' = [sheets EXCEPT ![1].values = m]
    /\ UNCHANGED <<call, result, locals, accessor, sheetMetadata, issued, earlier, server, dashboard>>

\* the API starts or stops failing
ApiChanges ==
    /\ accessor' \in StepModes \ {accessor}
    /\ UNCHANGED <<sheets, call, result, locals, sheetMetadata, issued, earlier, server, dashboard>>

NextSteps ==
    \/ StartStudentTests
    \/ StartSchoolStats
    \/ IssueRequest
    \/ ResponseArrives
    \/ Return
    \/ SendResponse
    \/ EditMapping
    \/ ApiChanges

SpecSteps == InitSteps /\ [][NextSteps]_vars

---------------------------------------------------------------------------
(* server.js: start-up and the routes *)

\* process.env: GOOGLE_SPREADSHEET_ID set or not, the credentials that are
\* configured, and whether auth.getClient() resolves
Environments ==
    {[spreadsheetId |-> i, auth |-> a, clientOk |-> c] :
        i \in BOOLEAN, a \in {"serviceAccount", "apiKey", "none"}, c \in BOOLEAN}

\* does initializeSheets() throw
initializeThrows(env) ==
    \/ ~env.spreadsheetId
    \/ env.auth = "none"
    \/ env.auth = "serviceAccount" /\ ~env.clientOk

\* the module after initializeSheets().then(...).catch(...): sheets and
\* spreadsheetId are assigned unless it threw, and app.listen ran either way
started(srv) ==
    [env |-> srv.env,
     sheetsClient |-> ~initializeThrows(srv.env),
     spreadsheetId |-> ~initializeThrows(srv.env),
     listening |-> TRUE]

readyAlways(srv) == TRUE

\* !(!sheets || !spreadsheetId)
ready(srv) == srv.sheetsClient /\ srv.spreadsheetId

NotInitializedError ==
    "Google Sheets API not initialized. Check server logs for authentication errors."

notInitialized == [status |-> 500, body |-> [error |-> NotInitializedError]]

badRequest(message) == [status |-> 400, body |-> [error |-> message]]

\* res.json(body), or the 500 of the route's catch for an exception
answer(body) ==
    IF IsThrown(body) THEN [status |-> 500, body |-> [error |-> body.error]]
    ELSE [status |-> 200, body |-> body]

healthRoute == [status |-> 200, body |-> [status |-> "ok"]]

studentTestsRoute(srv, ss, studentId, schoolId) ==
    IF ~ready(srv) THEN notInitialized
    ELSE IF Falsy(studentId) THEN badRequest("Student ID is required")
    ELSE answer(getStudentTests(ss, studentId.v,
                                IF Falsy(schoolId) THEN Null ELSE schoolId))

testDetailsRoute(srv, ss, studentId, testName) ==
    IF ~ready(srv) THEN notInitialized
    ELSE IF Falsy(studentId) \/ Falsy(testName)
         THEN badRequest("Student ID and test name are required")
    ELSE answer(getTestDetails(ss, studentId.v, testName.v))

enrichedRoute(srv, ss, testName) ==
    IF ~ready(srv) THEN notInitialized
    ELSE IF Falsy(testName) THEN badRequest("Test name is required")
    ELSE answer(enrichedResponse(ss, testName.v))

schoolStatsRoute(srv, ss, schoolId) ==
    IF ~ready(srv) THEN notInitialized
    ELSE IF Falsy(schoolId) THEN badRequest("School ID is required")
    ELSE answer(getSchoolStats(ss, schoolId.v))

\* the API requests of a route: none unless the service is called
routeRequests(response, requests) ==
    IF response.status \in {400, 500} THEN <<>> ELSE requests

StudentIdParams == {Undefined, Str(STU001)}

SchoolIdParams == {Undefined, Str(<<"S", "1">>)}

TestNameParams == {Undefined, Str(<<"T", "e", "s", "t", "1">>)}

InitServer ==
    /\ sheets \in ServiceSpreadsheets
    /\ call = NoCall
    /\ result = Undefined
    /\ locals = <<>>
    /\ accessor = Healthy
    /\ sheetMetadata = Null
    /\ issued = <<>>
    /\ earlier = Null
    /\ server \in {[env |-> e, sheetsClient |-> FALSE, spreadsheetId |-> FALSE,
                     listening |-> FALSE] : e \in Environments}
    /\ dashboard = Unmounted

\* initializeSheets().then(listen).catch(listen)
StartUp ==
    /\ ~server.listening
    /\ server' = started(server)
    /\ UNCHANGED <<sheets, call, result, locals, accessor, sheetMetadata, issued, earlier, dashboard>>

\* GET /health
GetHealth ==
    /\ server.listening /\ call = NoCall
    /\ call' = [op |-> "health"]
    /\ result' = healthRoute
    /\ UNCHANGED <<sheets, locals, accessor, sheetMetadata, issued, earlier, server, dashboard>>

\* GET /api/student/tests
RouteStudentTests ==
    /\ server.listening /\ call = NoCall
    /\ \E studentId \in StudentIdParams, schoolId \in SchoolIdParams :
          /\ call' = [op |-> "getStudentTests", studentId |-> studentId,
                      schoolId |-> schoolId]
          /\ result' = studentTestsRoute(server, sheets, studentId, schoolId)
          /\ issued' = routeRequests(result',
                            studentTestsRequests(sheets, studentId.v,
                                IF Falsy(schoolId) THEN Null ELSE schoolId))
    /\ sheets' = servedAll(sheets, issued')
    /\ UNCHANGED <<locals, accessor, sheetMetadata, earlier, server, dashboard>>

\* GET /api/student/test-details
RouteTestDetails ==
    /\ server.listening /\ call = NoCall
    /\ \E studentId \in StudentIdParams, testName \in TestNameParams :
          /\ call' = [op |-> "getTestDetails", studentId |-> studentId,
                      testName |-> testName]
          /\ result' = testDetailsRoute(server, sheets, studentId, testName)
          /\ issued' = routeRequests(result', testDetailsRequests(sheets, testName.v))
    /\ sheets' = servedAll(sheets, issued')
    /\ UNCHANGED <<locals, accessor, sheetMetadata, earlier, server, dashboard>>

\* GET /api/test/enriched
RouteEnriched ==
    /\ server.listening /\ call = NoCall
    /\ \E testName \in TestNameParams :
          /\ call' = [op |-> "enrichTestSheet", testName |-> testName]
          /\ result' = enrichedRoute(server, sheets, testName)
          /\ issued' = routeRequests(result', enrichRequests(sheets, testName.v))
    /\ sheets' = servedAll(sheets, issued')
    /\ UNCHANGED <<locals, accessor, sheetMetadata, earlier, server, dashboard>>

\* GET /api/school/stats
RouteSchoolStats ==
    /\ server.listening /\ call = NoCall
    /\ \E schoolId \in SchoolIdParams :
          /\ call' = [op |-> "getSchoolStats", schoolId |-> schoolId]
          /\ result' = schoolStatsRoute(server, sheets, schoolId)
          /\ issued' = routeRequests(result', schoolStatsRequests(sheets, schoolId.v))
    /\ sheets' = servedAll(sheets, issued')
    /\ UNCHANGED <<locals, accessor, sheetMetadata, earlier, server, dashboard>>

NextServer ==
    \/ StartUp
    \/ GetHealth
    \/ RouteStudentTests
    \/ RouteTestDetails
    \/ RouteEnriched
    \/ RouteSchoolStats
    \/ Respond

SpecServer == InitServer /\ [][NextServer]_vars

---------------------------------------------------------------------------
(* StudentDashboard: the list of the tests of a student and the details of *)
(* one test.  A response of the backend is the value the service returns   *)
(* for the request; a request can also fail in the network.                *)

MaxClicks == 4

DashboardStudentIds == {STU001, STU002}

\* the tests of the table that have a "View Details" button
testsWithButton(d) ==
    IF d.studentData = Null THEN {}
    ELSE {d.studentData.tests[i].name : i \in
            {j \in 1..Len(d.studentData.tests) : d.studentData.tests[j].hasData}}

\* disabled={loadingDetails && selectedTest === test.name}
buttonDisabled(d, testName) == d.loadingDetails /\ d.selectedTest = Str(testName)

\* fetchStudentTests, from the response on
studentTestsArrived(d, data) ==
    IF data.error # NoError
    THEN [d EXCEPT !.error = data.error, !.loading = FALSE]
    ELSE [d EXCEPT !.studentData = data, !.loading = FALSE]

\* fetchTestDetails(testName), up to its await
fetchTestDetails(d, testName) ==
    IF d.selectedTest = Str(testName)
    THEN [d EXCEPT !.selectedTest = Null, !.testDetails = Null]
    ELSE [d EXCEPT !.loadingDetails = TRUE,
                   !.selectedTest = Str(testName),
                   !.pending = @ \cup {[id |-> d.requests + 1, testName |-> testName]},
                   !.requests = @ + 1]

\* fetchTestDetails, from the response on
testDetailsArrived(d, request, data) ==
    [d EXCEPT !.error = IF data.error # NoError THEN data.error ELSE @,
              !.testDetails = IF data.error # NoError THEN Null ELSE data,
              !.loadingDetails = FALSE,
              !.pending = @ \ {request}]

\* fetchTestDetails, the catch block
testDetailsFailed(d, request) ==
    [d EXCEPT !.error = "Failed to fetch test details",
              !.testDetails = Null,
              !.loadingDetails = FALSE,
              !.pending = @ \ {request}]

InitDashboard ==
    /\ sheets \in ServiceSpreadsheets
    /\ call = NoCall
    /\ result = Undefined
    /\ locals = <<>>
    /\ accessor = Healthy
    /\ sheetMetadata = Null
    /\ issued = <<>>
    /\ earlier = Null
    /\ server = Ready
    /\ dashboard \in {[Unmounted EXCEPT !.studentId = id] : id \in DashboardStudentIds}

\* the response of GET /api/student/tests comes
StudentTestsArrive ==
    /\ dashboard.loading
    /\ dashboard' = studentTestsArrived(dashboard,
                        getStudentTests(sheets, dashboard.studentId, Null))
    /\ UNCHANGED <<sheets, call, result, locals, accessor, sheetMetadata, issued, earlier, server>>

\* a click on the "View Details" button of a test
ClickViewDetails ==
    /\ ~dashboard.loading
    /\ dashboard.requests < MaxClicks
    /\ \E testName \in testsWithButton(dashboard) :
          /\ ~buttonDisabled(dashboard, testName)
          /\ dashboard' = fetchTestDetails(dashboard, testName)
    /\ UNCHANGED <<sheets, call, result, locals, accessor, sheetMetadata, issued, earlier, server>>

\* the response of one GET /api/student/test-details comes
TestDetailsArrive ==
    /\ \E request \in dashboard.pending :
          dashboard' = testDetailsArrived(dashboard, request,
                          getTestDetails(sheets, dashboard.studentId, request.testName))
    /\ UNCHANGED <<sheets, call, result, locals, accessor, sheetMetadata, issued, earlier, server>>

\* one GET /api/student/test-details fails
TestDetailsFail ==
    /\ \E request \in dashboard.pending :
          dashboard' = testDetailsFailed(dashboard, request)
    /\ UNCHANGED <<sheets, call, result, locals, accessor, sheetMetadata, issued, earlier, server>>

NextDashboard ==
    \/ StudentTestsArrive
    \/ ClickViewDetails
    \/ TestDetailsArrive
    \/ TestDetailsFail

SpecDashboard == InitDashboard /\ [][NextDashboard]_vars


---------------------------------------------------------------------------
(* Claims about extractKey *)

KeyCalled == call.op = "extractKey"

NonEmptyCell == KeyCalled /\ call.cell.t = "string" /\ call.cell.v # <<>>

\* s = pre \o ws-only prefix / suffix removed: t is s without leading and
\* trailing white space
IsTrimOf(t, s) ==
    \E i \in 0..Len(s) : \E j \in i..Len(s) :
        /\ t = SubSeq(s, i + 1, j)
        /\ \A k \in 1..i : s[k] \in WhiteSpace
        /\ \A k \in (j + 1)..Len(s) : s[k] \in WhiteSpace
        /\ (t # <<>> => t[1] \notin WhiteSpace /\ t[Len(t)] \notin WhiteSpace)

\* C2: for every non-empty learner-details cell, extractKey returns the part
\* of the trimmed cell before the first "@" when the cell contains an "@",
\* and the trimmed cell itself when it contains none.
C2_KeyBeforeFirstAt ==
    NonEmptyCell =>
        /\ result.t = "string"
        /\ \E t \in {trim(call.cell.v)} :
            /\ IsTrimOf(t, call.cell.v)
            /\ IF AtSign \in Range(t)
               THEN /\ Len(result.v) < Len(t)
                    /\ result.v = SubSeq(t, 1, Len(result.v))
                    /\ t[Len(result.v) + 1] = AtSign
                    /\ AtSign \notin Range(result.v)
               ELSE result.v = t
        /\ (call.cell = Str(ExampleCell) => result = Str(ExampleKey))
        /\ (call.cell = Str(PlainCell) => result = Str(PlainCell))

\* a cell with two "@" signs and surrounding blanks has been cut at the first
C2_Witness ==
    /\ NonEmptyCell
    /\ Cardinality({i \in 1..Len(call.cell.v) : call.cell.v[i] = AtSign}) >= 2
    /\ Head(call.cell.v) \in WhiteSpace
    /\ result.t = "string" /\ result.v # <<>>

EmptyOrAbsentCell == KeyCalled /\ Falsy(call.cell)

\* C3 as stated: extractKey always returns a string, and the empty string
\* for an empty or absent cell.
C3_AlwaysString ==
    KeyCalled =>
        /\ result.t = "string"
        /\ (EmptyOrAbsentCell => result = Str(<<>>))

\* C3 amended: extractKey returns null for an empty or absent cell and a
\* string (possibly empty) for every other cell.
C3_NullForEmpty ==
    KeyCalled =>
        /\ (EmptyOrAbsentCell => result = Null)
        /\ (~EmptyOrAbsentCell => result.t = "string")

C3_Witness == KeyCalled /\ call.cell = Str(<<>>) /\ result = Null

---------------------------------------------------------------------------
(* Claims about findInMaster and getStudentTests *)

TestsCalled == call.op = "getStudentTests"

MasterGrid == readSheet(sheets, MappingName)

MasterHeader == IF MasterGrid = <<>> THEN <<>> ELSE MasterGrid[1]

HasSchoolColumn == \E i \in 1..Len(MasterHeader) : isSchool(MasterHeader[i])

HasStudentColumn ==
    \E i \in 1..Len(MasterHeader) :
        isStudentIdHeader(MasterHeader[i]) \/ isStudentNotSchool(MasterHeader[i])

\* the trimmed cell of a mapping row in a column, "absent" when the row has none
TrimmedCell(row, idx) ==
    IF idx >= 0 /\ idx < Len(row) THEN trim(row[idx + 1]) ELSE <<"absent">>

\* the data rows (positions in the grid) that satisfy the match of the call
SatisfyingRows ==
    LET grid == MasterGrid
        studentCol == studentIdIndexOf(MasterHeader)
        schoolCol == schoolIdIndexOf(MasterHeader)
    IN  {i \in 2..Len(grid) :
            /\ TrimmedCell(grid[i], studentCol) = call.studentId
            /\ (call.schoolId # Null =>
                   TrimmedCell(grid[i], schoolCol) = call.schoolId.v)}

ReturnsRow(i) ==
    /\ result.student # Undefined
    /\ result.student.studentId = At(MasterGrid[i], studentIdIndexOf(MasterHeader))
    /\ result.student.schoolId = At(MasterGrid[i], schoolIdIndexOf(MasterHeader))

\* C4 as stated: findInMaster returns the first row, in row order, that
\* satisfies the match (student cell and, when given, school cell), and
\* notFound exactly when no row satisfies it.
C4_FirstMatchOrNotFound ==
    TestsCalled =>
        IF SatisfyingRows = {} THEN result.student = Undefined
        ELSE ReturnsRow(Min(SatisfyingRows))

\* C4 amended: the same, and notFound also when the mapping header has no
\* school column or no student column.
C4_FirstMatchWhenColumns ==
    TestsCalled =>
        IF SatisfyingRows = {} \/ ~HasSchoolColumn \/ ~HasStudentColumn
        THEN result.student = Undefined
        ELSE ReturnsRow(Min(SatisfyingRows))

\* two rows satisfy the match and the earlier one, of another school than
\* the later one, is returned
C4_Witness ==
    /\ TestsCalled /\ call.schoolId = Null
    /\ Cardinality(SatisfyingRows) >= 2
    /\ result.student # Undefined
    /\ \E j \in SatisfyingRows :
           At(MasterGrid[j], schoolIdIndexOf(MasterHeader)) # result.student.schoolId

TestSheetNames ==
    SelectSeq(getSheetNames(sheets),
              LAMBDA n : toLowerCase(n) \notin {<<"m", "a", "p", "p", "i", "n", "g">>, <<"c", "o", "n", "f", "i", "g">>})

\* the identifier column of a test sheet: learner details, else "student"
IdentifierColumns(header) ==
    LET ld == {i \in 1..Len(header) : isLearnerDetails(header[i])}
        st == {i \in 1..Len(header) : isStudent(header[i])}
    IN  IF ld # {} THEN {Min(ld)} ELSE IF st # {} THEN {Min(st)} ELSE {}

\* Each of the three checks (cell equal to the id, cell containing the id,
\* key before "@" equal to the id) implies that the non-empty trimmed cell
\* contains the id, and containment is one of the three.
StudentInSheet(grid, studentId) ==
    /\ grid # <<>>
    /\ \E c \in IdentifierColumns(grid[1]) : \E i \in 2..Len(grid) :
          /\ c <= Len(grid[i])
          /\ trim(grid[i][c]) # <<>>
          /\ includes(trim(grid[i][c]), studentId)

\* C5: for a student found in the mapping sheet, tests has exactly one entry
\* per sheet whose name is not "mapping" or "config" (case-insensitive), in
\* sheet-list order; the entry is Attended/hasData exactly when the student
\* matches a row of that sheet, else Absent without data.
C5_OneEntryPerTestSheet ==
    (TestsCalled /\ result.student # Undefined) =>
        /\ Len(result.tests) = Len(TestSheetNames)
        /\ \A i \in 1..Len(TestSheetNames) :
              LET entry == result.tests[i]
                  attended == StudentInSheet(readSheet(sheets, TestSheetNames[i]),
                                             call.studentId)
              IN  /\ entry.name = TestSheetNames[i]
                  /\ entry.hasData = attended
                  /\ entry.status = IF attended THEN "Attended" ELSE "Absent"

\* a config sheet is left out, and an absence is followed by an attendance
C5_Witness ==
    /\ TestsCalled /\ result.student # Undefined
    /\ Len(getSheetNames(sheets)) = Len(result.tests) + 2
    /\ Len(result.tests) >= 2
    /\ result.tests[1].status = "Absent" /\ ~result.tests[1].hasData
    /\ result.tests[2].status = "Attended"

\* every test sheet is listed and all are Absent
C5_AllAbsentWitness ==
    /\ TestsCalled /\ result.student # Undefined
    /\ Len(result.tests) = MaxSheets
    /\ \A i \in 1..Len(result.tests) : result.tests[i].status = "Absent"

\* C6: when the student is not found in the mapping sheet the result is an
\* error with an empty tests list and no student record; the error names the
\* school ID mismatch exactly when a schoolId was given.
C6_NotFoundIsTerminal ==
    (TestsCalled /\ (SatisfyingRows = {} \/ ~HasSchoolColumn \/ ~HasStudentColumn)) =>
        /\ result.student = Undefined
        /\ result.tests = <<>>
        /\ result.error = IF call.schoolId # Null
                          THEN "Student not found or school ID mismatch"
                          ELSE "Student not found"

\* the student of the call is in a test sheet but under another school
C6_Witness ==
    /\ TestsCalled /\ call.schoolId # Null
    /\ \E i \in 2..Len(MasterGrid) :
          TrimmedCell(MasterGrid[i], studentIdIndexOf(MasterHeader)) = call.studentId
    /\ StudentInSheet(readSheet(sheets, <<"A", "p", "t", "i", "t", "u", "d", "e", " ", "T", "e", "s", "t">>), call.studentId)
    /\ result.error = "Student not found or school ID mismatch"
    /\ result.tests = <<>>

---------------------------------------------------------------------------
(* Claims about getSchoolStats *)

StatsSucceeded == call.op = "getSchoolStats" /\ result.error = NoError

\* the sum of the values of a function with a finite domain
RECURSIVE SumOver(_)
SumOver(f) ==
    IF DOMAIN f = {} THEN 0
    ELSE LET x == CHOOSE y \in DOMAIN f : TRUE
         IN  f[x] + SumOver([y \in DOMAIN f \ {x} |-> f[y]])

ScoreKeywords == {<<"s", "c", "o", "r", "e">>, <<"m", "a", "r", "k">>, <<"t", "o", "t", "a", "l">>}

\* the columns (0-based) whose header contains one of the three keywords
KeywordColumns(header) ==
    {i - 1 : i \in {j \in 1..Len(header) :
                       \E k \in ScoreKeywords : includes(toLowerCase(header[j]), k)}}

\* C1: for every test-sheet row matched to the school the row score is the sum,
\* over exactly the columns whose header contains "score", "mark" or "total"
\* (case-insensitive), of the cell coerced to a number (0 for a non-numeric or
\* missing cell); no other column contributes.
C1_ScoreSumsKeywordColumns ==
    StatsSucceeded =>
        \A k \in 1..Len(locals) :
            LET grid == readSheet(sheets, locals[k].testName)
                cols == KeywordColumns(grid[1])
            IN  \A i \in 1..Len(locals[k].rows) :
                    locals[k].rows[i].matched =>
                        locals[k].rows[i].score
                            = SumOver([c \in cols |-> parseFloatOr0(At(grid[i + 1], c))])

\* a matched row whose two score columns both count, beside a numeric cell
\* in a column that is no score column
C1_Witness ==
    /\ StatsSucceeded
    /\ \E k \in 1..Len(locals) :
          LET grid == readSheet(sheets, locals[k].testName)
          IN  /\ Cardinality(KeywordColumns(grid[1])) = 2
              /\ \E i \in 1..Len(locals[k].rows) :
                    /\ locals[k].rows[i].matched
                    /\ locals[k].rows[i].score = 1850
                    /\ \E c \in 0..(Len(grid[1]) - 1) :
                          /\ c \notin KeywordColumns(grid[1])
                          /\ parseFloatOr0(At(grid[i + 1], c)) > 0

\* p is a / b rounded to the nearest integer, halves up (a >= 0, b > 0)
IsRounded(p, a, b) == 2 * p * b - b <= 2 * a /\ 2 * a < 2 * p * b + b

\* C7: attendancePercent is attendedCount / totalStudents * 100 rounded to 2
\* decimals (3 of 5 gives 60.00) and avgScore is totalScore / scoreCount
\* rounded to 2 decimals, 0 when scoreCount is 0.  Percentages and averages
\* are in hundredths, scores in tenths.
C7_RoundedPercentAndAverage ==
    StatsSucceeded =>
        \A k \in 1..Len(result.testStats) :
            LET t == result.testStats[k]
                l == locals[k]
            IN  /\ IsRounded(t.attendancePercent, t.attendedCount * 100 * 100,
                             t.totalStudents)
                /\ (t.attendedCount = 3 /\ t.totalStudents = 5
                        => t.attendancePercent = 6000)
                /\ IF l.scoreCount > 0
                   THEN IsRounded(t.avgScore, l.totalScore * 10, l.scoreCount)
                   ELSE t.avgScore = 0

\* 3 of 5 students attended, and the average (66.666...) is rounded up
C7_Witness ==
    /\ StatsSucceeded
    /\ \E k \in 1..Len(result.testStats) :
          /\ result.testStats[k].attendedCount = 3
          /\ result.testStats[k].totalStudents = 5
          /\ result.testStats[k].attendancePercent = 6000
          /\ locals[k].scoreCount = 3
          /\ (locals[k].totalScore * 10) % 3 = 2
          /\ result.testStats[k].avgScore * 3 > locals[k].totalScore * 10

\* C8: every testStats entry has an attendancePercent between 0 and 100
\* (attendedCount never exceeds totalStudents).
C8_PercentWithin100 ==
    StatsSucceeded =>
        \A k \in 1..Len(result.testStats) :
            /\ result.testStats[k].attendancePercent >= 0
            /\ result.testStats[k].attendancePercent <= 100 * 100
            /\ result.testStats[k].attendedCount <= result.testStats[k].totalStudents

\* C9: topPerformers never has more than 5 entries.
C9_AtMostFivePerformers ==
    StatsSucceeded =>
        \A k \in 1..Len(result.testStats) :
            Len(result.testStats[k].topPerformers) <= 5

\* more than five matched rows have a score, five are listed
C9_Witness ==
    /\ StatsSucceeded
    /\ \E k \in 1..Len(result.testStats) :
          /\ locals[k].scoreCount > 5
          /\ Len(result.testStats[k].topPerformers) = 5

\* C10 as stated: topPerformers is strictly descending by score.
C10_StrictlyDescending ==
    StatsSucceeded =>
        \A k \in 1..Len(result.testStats) :
            LET top == result.testStats[k].topPerformers
            IN  \A i \in 1..(Len(top) - 1) : top[i].score > top[i + 1].score

\* C10 amended: topPerformers is descending by score, equal scores allowed:
\* no entry has a smaller score than the entry after it.
C10_Descending ==
    StatsSucceeded =>
        \A k \in 1..Len(result.testStats) :
            LET top == result.testStats[k].topPerformers
            IN  \A i \in 1..(Len(top) - 1) : top[i].score >= top[i + 1].score

\* a lower score came first in the sheet; the list holds two students with
\* the same score and a descent
C10_Witness ==
    /\ StatsSucceeded
    /\ \E k \in 1..Len(result.testStats) :
          LET top == result.testStats[k].topPerformers
              scores == locals[k].studentScores
          IN  /\ Len(top) >= 3
              /\ scores[1].score < scores[2].score
              /\ \E i \in 1..(Len(top) - 1) :
                    /\ top[i].score = top[i + 1].score
                    /\ top[i].studentId # top[i + 1].studentId
              /\ \E i \in 1..(Len(top) - 1) : top[i].score > top[i + 1].score

\* C11: a matched row whose score is exactly 0 is counted in attendedCount,
\* but it is not among the rows counted by scoreCount (the denominator of
\* avgScore) and no entry of topPerformers has score 0.
C11_ZeroScoreDropped ==
    StatsSucceeded =>
        \A k \in 1..Len(result.testStats) :
            LET rows == locals[k].rows
                matchedRows == {i \in 1..Len(rows) : rows[i].matched}
                nonZero == {i \in matchedRows : rows[i].score # 0}
                t == result.testStats[k]
            IN  /\ t.attendedCount = Cardinality(matchedRows)
                /\ locals[k].scoreCount <= Cardinality(nonZero)
                /\ \A j \in 1..Len(locals[k].studentScores) :
                       locals[k].studentScores[j].score # 0
                /\ \A j \in 1..Len(t.topPerformers) : t.topPerformers[j].score # 0

\* a matched row with score 0 beside matched rows with a score: all of them
\* attended, all but the first are averaged and listed
C11_Witness ==
    /\ StatsSucceeded
    /\ \E k \in 1..Len(result.testStats) :
          LET rows == locals[k].rows
              t == result.testStats[k]
          IN  /\ Len(rows) = 3
              /\ rows[1].matched /\ rows[1].score = 0
              /\ \A i \in 2..3 : rows[i].matched /\ rows[i].score > 0
              /\ t.attendedCount = 3
              /\ locals[k].scoreCount = 2
              /\ Len(t.topPerformers) = 2

---------------------------------------------------------------------------
(* Claims about enrichTestSheet *)

EnrichCalled == call.op = "enrichTestSheet"

\* the grid enrichTestSheet read
InputGrid == readSheet(sheets, call.testName)

\* C13: the grid returned by enrichTestSheet has exactly as many rows as the
\* input grid, header row included, and its data rows keep the input row
\* order: the i-th output row starts with the cells of the i-th input row.
C13_SameRowsSameOrder ==
    EnrichCalled =>
        /\ Len(result.data) = Len(InputGrid)
        /\ \A i \in 2..Len(InputGrid) :
               /\ Len(result.data[i]) >= Len(InputGrid[i])
               /\ SubSeq(result.data[i], 1, Len(InputGrid[i])) = InputGrid[i]

\* three different data rows, of which one is not in the mapping sheet and
\* one has no cells, were enriched
C13_Witness ==
    /\ EnrichCalled
    /\ Len(InputGrid) = 4
    /\ result.data # InputGrid
    /\ InputGrid[2] # InputGrid[3] /\ InputGrid[3] # InputGrid[4]
    /\ InputGrid[2] # InputGrid[4]
    /\ \E i \in 2..4 : InputGrid[i] = <<>>
    /\ \E i \in 2..4 : result.data[i][Len(result.data[i]) - 3] # <<>>

EnrichmentColumns == <<<<"S", "c", "h", "o", "o", "l", " ", "N", "a", "m", "e">>, <<"O", "p", "e", "n", "G", "r", "a", "d", " ", "S", "c", "h", "o", "o", "l", " ", "C", "o", "d", "e">>, <<"U", "D", "S", "I", "E", " ", "C", "o", "d", "e">>, <<"E", "M", "I", "S", " ", "I", "D">>>>

\* the four names that the header does not contain, in their order
MissingColumns(header) ==
    SelectSeq(EnrichmentColumns, LAMBDA c : \A i \in 1..Len(header) : header[i] # c)

HasLearnerDetails(header) ==
    \E i \in 1..Len(header) :
        /\ includes(toLowerCase(header[i]), <<"l", "e", "a", "r", "n", "e", "r">>)
        /\ includes(toLowerCase(header[i]), <<"d", "e", "t", "a", "i", "l", "s">>)

\* C14 as stated: for every test sheet the output header is the input header
\* followed by exactly those of the 4 names that it does not contain.
C14_HeaderGainsMissing ==
    EnrichCalled /\ InputGrid # <<>> =>
        result.data[1] = InputGrid[1] \o MissingColumns(InputGrid[1])

\* C14 amended: that holds for a test sheet whose header has a Learner
\* Details column; a sheet without one is returned as it is.
C14_HeaderGainsMissingIfLearner ==
    EnrichCalled /\ InputGrid # <<>> =>
        IF HasLearnerDetails(InputGrid[1])
        THEN result.data[1] = InputGrid[1] \o MissingColumns(InputGrid[1])
        ELSE result.data = InputGrid

\* a header that has one of the four names gained the other three
C14_Witness ==
    /\ EnrichCalled
    /\ InputGrid # <<>>
    /\ HasLearnerDetails(InputGrid[1])
    /\ Len(MissingColumns(InputGrid[1])) = 3
    /\ Len(result.data[1]) = Len(InputGrid[1]) + 3

---------------------------------------------------------------------------
(* Claims about the service as a whole *)

C15_ReadOnly ==
    [][/\ sheets' = sheets
       /\ \A i \in 1..Len(issued') :
              issued'[i].method \in {"spreadsheets.get", "spreadsheets.values.get"}]_vars

\* a call listed the sheets and read the mapping sheet and test sheets
C15_Witness ==
    /\ call # NoCall
    /\ Len(issued) >= 5
    /\ \E i \in 1..Len(issued) : issued[i].method = "spreadsheets.get"
    /\ \E i \in 1..Len(issued) :
          issued[i].method = "spreadsheets.values.get" /\ issued[i].range # MappingName

\* C16 as stated: getStudentTests and getSchoolStats never throw; every call
\* ends in a returned result.
C16_AggregatorsNeverThrow ==
    call.op \in {"getStudentTests", "getSchoolStats"} => ~IsThrown(result)

\* a request of the call failed: the listing, or reading a sheet
SomeRequestFailed ==
    \E i \in 1..Len(issued) :
        \/ issued[i].method = "spreadsheets.get" /\ accessor.list
        \/ /\ issued[i].method = "spreadsheets.values.get"
           /\ \/ issued[i].range \in accessor.read
              \/ \A k \in 1..Len(sheets) : sheets[k].name # issued[i].range

ErrorOutcome ==
    IsThrown(result) \/ ("error" \in DOMAIN result /\ result.error # NoError)

\* C18 as stated: a request during which the listing or the reading of a
\* sheet failed ends with an error outcome, never with a success result.
C18_FailureIsTerminal ==
    call # NoCall /\ SomeRequestFailed => ErrorOutcome

---------------------------------------------------------------------------
(* Claims about the roster of a school and the overall statistics *)

StatsCalledOp == call # NoCall /\ call.op = "getSchoolStats"

\* the values of the mapping sheet, the first sheet of the spreadsheet
MappingGrid == sheets[1].values

\* does the school cell of row i (1-based, the header is row 1) match schoolId
\* after trimming and ignoring case; with needStudent, is its student cell
\* not blank as well
RowMatches(grid, i, schoolId, needStudent) ==
    LET header == grid[1]
        schoolCell == At(grid[i], schoolIdIndexOf(header))
        studentCell == At(grid[i], studentIdIndexOf(header))
    IN  /\ schoolCell.t = "string"
        /\ toUpperCase(trim(schoolCell.v)) = toUpperCase(trim(schoolId))
        /\ needStudent => studentCell.t = "string" /\ trim(studentCell.v) # <<>>

\* the data rows that match, in row order
MatchingRows(grid, schoolId, needStudent) ==
    IF grid = <<>> THEN <<>>
    ELSE SelectSeq([i \in 1..(Len(grid) - 1) |-> i + 1],
                   LAMBDA i : RowMatches(grid, i, schoolId, needStudent))

\* one (studentId, schoolId) entry for every row of rows
RosterOf(grid, rows) ==
    [k \in 1..Len(rows) |->
        [t |-> "student",
         studentId |-> At(grid[rows[k]], studentIdIndexOf(grid[1])),
         schoolId |-> At(grid[rows[k]], schoolIdIndexOf(grid[1]))]]

HasBothColumns(grid) ==
    /\ grid # <<>>
    /\ schoolIdIndexOf(grid[1]) # -1
    /\ studentIdIndexOf(grid[1]) # -1

NotFoundError == "School not found or has no students in the Mapping sheet"

\* C17: when no mapping row matches the requested schoolId, getSchoolStats
\* returns the "school not found or has no students" error, without
\* totalStudents, overallStats or testStats, and its details list at most 10
\* school identifiers, each of them the trimmed school cell of a mapping row
C17_SchoolNotFound ==
    (StatsCalledOp /\ MatchingRows(MappingGrid, call.schoolId, FALSE) = <<>>) =>
        /\ result.error = NotFoundError
        /\ DOMAIN result \cap {"totalStudents", "overallStats", "testStats"} = {}
        /\ Len(result.details) <= 10
        /\ \A k \in 1..Len(result.details) :
              \E i \in 2..Len(MappingGrid) :
                  LET cell == At(MappingGrid[i], schoolIdIndexOf(MappingGrid[1]))
                  IN  cell.t = "string" /\ trim(cell.v) = result.details[k]

\* a school that is not one of the twelve of the mapping sheet: ten are listed
C17_Witness ==
    /\ StatsCalledOp
    /\ MatchingRows(MappingGrid, call.schoolId, FALSE) = <<>>
    /\ Cardinality({TrimOrEmpty(At(MappingGrid[i], schoolIdIndexOf(MappingGrid[1]))) :
                       i \in 2..Len(MappingGrid)} \ {<<>>}) > 10
    /\ result.error = NotFoundError
    /\ Len(result.details) = 10

\* the roster that getSchoolStats works with
Roster == getStudentsBySchool(MappingGrid, call.schoolId)

\* C19, as stated: the roster has one entry for every mapping data row whose
\* school cell equals the requested schoolId after trimming and ignoring
\* case, in row order and without de-duplication, and totalStudents is the
\* number of matching rows (read for a mapping header that has a school and a
\* student column)
C19_RosterEveryMatchingRow ==
    (StatsCalledOp /\ HasBothColumns(MappingGrid)) =>
        LET matching == MatchingRows(MappingGrid, call.schoolId, FALSE)
        IN  /\ Roster = RosterOf(MappingGrid, matching)
            /\ result.error = NoError => result.totalStudents = Len(matching)
            /\ matching # <<>> => result.error # NotFoundError

\* C19, amended: when the mapping header has a school and a student column,
\* the roster has one entry for every matching row whose student cell is not
\* blank, in row order and without de-duplication, and totalStudents is the
\* number of those rows; the request ends as "not found" when there is none,
\* and the roster is empty when one of the two columns is missing
C19_RosterEveryRowWithStudent ==
    StatsCalledOp =>
        LET matching == MatchingRows(MappingGrid, call.schoolId, TRUE)
            expected == IF HasBothColumns(MappingGrid)
                        THEN RosterOf(MappingGrid, matching) ELSE <<>>
        IN  /\ Roster = expected
            /\ result.error = NoError => result.totalStudents = Len(expected)
            /\ expected = <<>> <=> result.error = NotFoundError

\* the same student row twice and a row of the school under another spelling:
\* three students
C19_Witness ==
    /\ StatsSucceeded
    /\ Len(MappingGrid) = 4
    /\ \E i, j \in 2..4 :
          /\ i < j
          /\ MappingGrid[i] = MappingGrid[j]
    /\ \E i \in 2..4 : MappingGrid[i][1] # call.schoolId
    /\ Len(MatchingRows(MappingGrid, call.schoolId, TRUE)) = 3
    /\ Len(Roster) = 3
    /\ result.totalStudents = 3

\* the values of one field of testStats
AttendancePercents ==
    [k \in 1..Len(result.testStats) |-> result.testStats[k].attendancePercent]

AvgScores == [k \in 1..Len(result.testStats) |-> result.testStats[k].avgScore]

\* C20: in a successful result, overallStats.avgAttendance and
\* overallStats.avgScore are the arithmetic means of attendancePercent and of
\* avgScore over the entries of testStats, rounded to 2 decimals (all values in
\* hundredths), and both are 0 when testStats is empty
C20_OverallIsRoundedMean ==
    StatsSucceeded =>
        IF result.testStats = <<>>
        THEN /\ result.overallStats.avgAttendance = 0
             /\ result.overallStats.avgScore = 0
        ELSE /\ IsRounded(result.overallStats.avgAttendance,
                          sumSeq(AttendancePercents), Len(result.testStats))
             /\ IsRounded(result.overallStats.avgScore,
                          sumSeq(AvgScores), Len(result.testStats))

\* two tests with different attendance and different average scores, whose
\* mean of the average scores has to be rounded
C20_Witness ==
    /\ StatsSucceeded
    /\ Len(result.testStats) = 2
    /\ AttendancePercents[1] # AttendancePercents[2]
    /\ AvgScores[1] # AvgScores[2]
    /\ sumSeq(AvgScores) % 2 = 1
    /\ 2 * result.overallStats.avgScore = sumSeq(AvgScores) + 1

\* a successful result without any processed test sheet
C20_NoTestWitness ==
    /\ StatsSucceeded
    /\ result.testStats = <<>>
    /\ result.overallStats = [avgAttendance |-> 0, avgScore |-> 0]

---------------------------------------------------------------------------
(* Claims about the resolution of the student-identifier column *)

ColumnResolved == call.op = "studentIdIndex"

\* the 1-based positions of the header cells that satisfy each predicate
UserNameColumns ==
    {i \in 1..Len(call.header) : toLowerCase(call.header[i]) = <<"u", "s", "e", "r", "n", "a", "m", "e">>}

EmisColumns ==
    {i \in 1..Len(call.header) :
        \/ toLowerCase(call.header[i]) = <<"e", "m", "i", "s", "_", "i", "d">>
        \/ includes(toLowerCase(call.header[i]), <<"e", "m", "i", "s">>)}

EmisIdColumns ==
    {i \in 1..Len(call.header) : toLowerCase(call.header[i]) = <<"e", "m", "i", "s", "_", "i", "d">>}

StudentIdColumns ==
    {i \in 1..Len(call.header) : includes(toLowerCase(call.header[i]), <<"s", "t", "u", "d", "e", "n", "t", " ", "i", "d">>)}

StudentNotSchoolColumns ==
    {i \in 1..Len(call.header) :
        /\ includes(toLowerCase(call.header[i]), <<"s", "t", "u", "d", "e", "n", "t">>)
        /\ ~includes(toLowerCase(call.header[i]), <<"s", "c", "h", "o", "o", "l">>)}

\* the 0-based index of the leftmost column of S
Leftmost(S) == Min(S) - 1

\* C21, as stated: the student-identifier column is the first "username"
\* column if there is one; otherwise the first column that equals "emis_id" or
\* contains "emis"; otherwise the first column containing "student id";
\* otherwise the first column containing "student" and not "school"
C21_PriorityCascade ==
    ColumnResolved =>
        result = IF UserNameColumns # {} THEN Leftmost(UserNameColumns)
                 ELSE IF EmisColumns # {} THEN Leftmost(EmisColumns)
                 ELSE IF StudentIdColumns # {} THEN Leftmost(StudentIdColumns)
                 ELSE IF StudentNotSchoolColumns # {}
                      THEN Leftmost(StudentNotSchoolColumns)
                 ELSE -1

\* C21, amended: the student-identifier column is the leftmost column that
\* equals "username", equals "emis_id" or contains "student id", whichever of
\* the three it is; when there is none, it is the first column containing
\* "student" and not "school"; -1 when there is none either
C21_LeftmostOfThree ==
    ColumnResolved =>
        LET primary == UserNameColumns \cup EmisIdColumns \cup StudentIdColumns
        IN  result = IF primary # {} THEN Leftmost(primary)
                     ELSE IF StudentNotSchoolColumns # {}
                          THEN Leftmost(StudentNotSchoolColumns)
                     ELSE -1

\* a "student id" column left of a "username" column is the one chosen
C21_Witness ==
    /\ ColumnResolved
    /\ call.header = <<<<"S", "t", "u", "d", "e", "n", "t", " ", "I", "D">>, <<"U", "s", "e", "r", "N", "a", "m", "e">>>>
    /\ result = 0

---------------------------------------------------------------------------
(* Claims about findStudentInTestSheet and getTestDetails *)

DetailsCalled == call # NoCall /\ call.op = "getTestDetails"

NotInTestError == "Student not found in this test"

\* the values of the sheet called name, no values when there is none
GridNamed(name) ==
    IF \E i \in 1..Len(sheets) : sheets[i].name = name
    THEN sheets[CHOOSE i \in 1..Len(sheets) : sheets[i].name = name].values
    ELSE <<>>

\* the 1-based identifier column of a header: the learner-details column when
\* present, else the first column containing "student"; 0 when there is none
IdentifierColumn(header) ==
    LET learner == {i \in 1..Len(header) :
                       /\ includes(toLowerCase(header[i]), <<"l", "e", "a", "r", "n", "e", "r">>)
                       /\ includes(toLowerCase(header[i]), <<"d", "e", "t", "a", "i", "l", "s">>)}
        student == {i \in 1..Len(header) : includes(toLowerCase(header[i]), <<"s", "t", "u", "d", "e", "n", "t">>)}
    IN  IF learner # {} THEN Min(learner)
        ELSE IF student # {} THEN Min(student)
        ELSE 0

\* the three checks on the (trimmed) identifier cell of row i of grid
SatisfiesACheck(grid, i, studentId) ==
    LET col == IdentifierColumn(grid[1])
        cell == trim(grid[i][col])
    IN  /\ col # 0 /\ col <= Len(grid[i])
        /\ \/ cell = studentId
           \/ includes(cell, studentId)
           \/ extractUsernameFromLearnerDetails(Str(cell)) = Str(studentId)

RowsPassingACheck(grid, studentId) ==
    IF grid = <<>> THEN {}
    ELSE {i \in 2..Len(grid) : SatisfiesACheck(grid, i, studentId)}

\* C22: findStudentInTestSheet returns the first data row, in row order, whose
\* identifier cell (learner details when present, else the first "student"
\* column) equals studentId, contains studentId or has studentId as its
\* extracted key; it returns notFound exactly when no row satisfies any of the
\* three or the sheet has no identifier column
C22_FirstRowOfThreeChecks ==
    DetailsCalled =>
        LET grid == GridNamed(call.testName)
            hits == RowsPassingACheck(grid, call.studentId)
        IN  IF hits = {}
            THEN result.error = NotInTestError /\ result.data = Null
            ELSE /\ result.error = NoError
                 /\ \A k \in 1..Len(grid[1]) :
                        result.data[grid[1][k]] =
                            IF k <= Len(grid[Min(hits)]) THEN grid[Min(hits)][k] ELSE <<>>

\* a row that only contains the studentId comes first and is the one
\* returned, before a row that equals it
C22_Witness ==
    /\ DetailsCalled
    /\ call.studentId = STU001
    /\ Len(GridNamed(call.testName)) = 4
    /\ GridNamed(call.testName)[2][1] = <<"S", "T", "U", "0", "0", "2", "@", "x", ".", "i", "o">>
    /\ GridNamed(call.testName)[3][1] = <<"X", "S", "T", "U", "0", "0", "1", "Y">>
    /\ GridNamed(call.testName)[4][1] = STU001
    /\ result.error = NoError
    /\ result.data[<<"S", "c", "o", "r", "e">>] = <<"7", "2">>

\* an observed, successful getStudentTests and now a getTestDetails call for
\* the same student
ListedThenDetails ==
    /\ earlier # Null
    /\ earlier.call.op = "getStudentTests"
    /\ earlier.result.error = NoError
    /\ DetailsCalled
    /\ call.studentId = earlier.call.studentId

\* C27: for unchanged sheet data and a student found in the mapping sheet, a
\* test that getStudentTests reports with hasData true (status "Attended")
\* has a data record and no error in getTestDetails, and a test reported
\* "Absent" has the error "Student not found in this test" with data null
C27_ListAgreesWithDetails ==
    ListedThenDetails =>
        \A k \in 1..Len(earlier.result.tests) :
            LET test == earlier.result.tests[k]
            IN  test.name = call.testName =>
                    /\ test.hasData <=> test.status = "Attended"
                    /\ test.status \in {"Attended", "Absent"}
                    /\ test.hasData =>
                           /\ result.error = NoError
                           /\ DOMAIN result.data # DOMAIN Null
                    /\ test.status = "Absent" =>
                           /\ result.error = NotInTestError
                           /\ result.data = Null

\* the test was listed as attended, by a row that only contains the
\* studentId, and its details are that row
C27_Witness ==
    /\ ListedThenDetails
    /\ \E k \in 1..Len(earlier.result.tests) :
          /\ earlier.result.tests[k].name = call.testName
          /\ earlier.result.tests[k].status = "Attended"
    /\ result.error = NoError
    /\ result.data[<<"S", "c", "o", "r", "e">>] = <<"7", "2">>

\* the test was listed as absent and its details are the error
C27_AbsentWitness ==
    /\ ListedThenDetails
    /\ \E k \in 1..Len(earlier.result.tests) :
          /\ earlier.result.tests[k].name = call.testName
          /\ earlier.result.tests[k].status = "Absent"
    /\ Len(GridNamed(call.testName)) > 1
    /\ result.error = NotInTestError

---------------------------------------------------------------------------
(* Claims about the test-sheet loop of getSchoolStats *)

\* the 1-based positions of the "username", opengrad school-code and
\* student-name columns of the mapping header, 0 when there is none
ColumnWhere(header, S) == IF S = {} THEN 0 ELSE Min(S)

UserNameColumn ==
    ColumnWhere(MappingGrid[1],
                {i \in 1..Len(MappingGrid[1]) :
                    toLowerCase(MappingGrid[1][i]) = <<"u", "s", "e", "r", "n", "a", "m", "e">>})

OpengradCodeColumn ==
    ColumnWhere(MappingGrid[1],
                {i \in 1..Len(MappingGrid[1]) :
                    /\ includes(toLowerCase(MappingGrid[1][i]), <<"o", "p", "e", "n", "g", "r", "a", "d">>)
                    /\ includes(toLowerCase(MappingGrid[1][i]), <<"s", "c", "h", "o", "o", "l">>)
                    /\ includes(toLowerCase(MappingGrid[1][i]), <<"c", "o", "d", "e">>)})

StudentNameColumn ==
    ColumnWhere(MappingGrid[1],
                {i \in 1..Len(MappingGrid[1]) :
                    /\ includes(toLowerCase(MappingGrid[1][i]), <<"s", "t", "u", "d", "e", "n", "t">>)
                    /\ includes(toLowerCase(MappingGrid[1][i]), <<"n", "a", "m", "e">>)
                    /\ ~includes(toLowerCase(MappingGrid[1][i]), <<"s", "c", "h", "o", "o", "l">>)})

\* the trimmed cell of a row at a 1-based column, empty outside the row
CellAt(row, col) == IF col >= 1 /\ col <= Len(row) THEN trim(row[col]) ELSE <<>>

\* the trimmed non-empty usernames of the mapping rows whose opengrad school
\* code is the requested schoolId
UserNamesOfSchool ==
    {CellAt(MappingGrid[i], UserNameColumn) :
        i \in {j \in 2..Len(MappingGrid) :
                  toUpperCase(CellAt(MappingGrid[j], OpengradCodeColumn))
                      = toUpperCase(trim(call.schoolId))}} \ {<<>>}

\* in every processed sheet with a learner-details column, a row counts as
\* attended exactly when its extracted key is in S
AttendedIffKeyIn(S) ==
    \A k \in 1..Len(locals) :
        LET grid == GridNamed(locals[k].testName)
            col == ColumnWhere(grid[1],
                       {i \in 1..Len(grid[1]) :
                           /\ includes(toLowerCase(grid[1][i]), <<"l", "e", "a", "r", "n", "e", "r">>)
                           /\ includes(toLowerCase(grid[1][i]), <<"d", "e", "t", "a", "i", "l", "s">>)})
        IN  col # 0 =>
                \A i \in 1..Len(locals[k].rows) :
                    LET key == extractUsernameFromLearnerDetails(
                                   Str(CellAt(grid[i + 1], col)))
                    IN  locals[k].rows[i].matched
                            <=> (key.t = "string" /\ key.v \in S)

\* C23: whenever the mapping sheet has a "username" column and an opengrad
\* school-code column, the school's username set is the set of the trimmed
\* non-empty usernames of the mapping rows whose opengrad school code equals
\* the requested schoolId (case-insensitive, trimmed), and a learner-details
\* row of a test sheet counts as attended exactly when its extracted key is in
\* that set
C23_UserNameSet ==
    (StatsSucceeded /\ UserNameColumn # 0 /\ OpengradCodeColumn # 0) =>
        /\ studentUserNames(MappingGrid, call.schoolId) = UserNamesOfSchool
        /\ AttendedIffKeyIn(UserNamesOfSchool)

\* the same when the mapping sheet also has a student-name column
C23_UserNameSetWithStudentName ==
    (StatsSucceeded /\ UserNameColumn # 0 /\ OpengradCodeColumn # 0
        /\ StudentNameColumn # 0) =>
        /\ studentUserNames(MappingGrid, call.schoolId) = UserNamesOfSchool
        /\ AttendedIffKeyIn(UserNamesOfSchool)

\* without a student-name column the set is empty and no learner-details row
\* counts as attended
C23_EmptyWithoutStudentName ==
    (StatsSucceeded /\ StudentNameColumn = 0) =>
        /\ studentUserNames(MappingGrid, call.schoolId) = {}
        /\ AttendedIffKeyIn({})

\* the names of the sheets other than "mapping" and "config", in sheet order
TestSheetsInOrder ==
    SelectSeq([i \in 1..Len(sheets) |-> sheets[i].name],
              LAMBDA n : toLowerCase(n) \notin {<<"m", "a", "p", "p", "i", "n", "g">>, <<"c", "o", "n", "f", "i", "g">>})

\* the sheet has rows and its header has a learner-details column or a column
\* containing "student"
HasIdentifierColumn(name) ==
    /\ GridNamed(name) # <<>>
    /\ IdentifierColumn(GridNamed(name)[1]) # 0

\* C24: a test sheet whose header has neither a learner-details column nor a
\* column containing "student" is skipped without error: the request still
\* succeeds, and testStats has one entry for each of the other (non-empty)
\* test sheets and for no other sheet, in sheet-list order
C24_SkippedSheetsLeftOut ==
    (StatsCalledOp /\ result.error # NotFoundError) =>
        /\ result.error = NoError
        /\ [k \in 1..Len(result.testStats) |-> result.testStats[k].testName]
               = SelectSeq(TestSheetsInOrder, HasIdentifierColumn)
        /\ \A k \in 1..Len(result.testStats) :
               result.testStats[k].totalStudents = result.totalStudents

\* the first test sheet has no identifier column, the second one is processed
C24_Witness ==
    /\ StatsSucceeded
    /\ Len(TestSheetsInOrder) = 2
    /\ GridNamed(TestSheetsInOrder[1]) # <<>>
    /\ ~HasIdentifierColumn(TestSheetsInOrder[1])
    /\ Len(result.testStats) = 1
    /\ result.testStats[1].testName = TestSheetsInOrder[2]
    /\ result.overallStats.avgAttendance = result.testStats[1].attendancePercent
    /\ result.overallStats.avgScore = result.testStats[1].avgScore

---------------------------------------------------------------------------
(* Claims about the order of the reads of one request *)

\* the reads of test sheets among the requests of the running call
TestSheetReads ==
    SelectSeq(issued, LAMBDA r : r.method = "spreadsheets.values.get"
                                     /\ r.range # MappingName)

\* the position of a sheet name in the sheet-name list
PositionOf(name) == CHOOSE i \in 1..Len(TestSheetsInOrder) : TestSheetsInOrder[i] = name

\* C25: within one getStudentTests or getSchoolStats request at most one
\* request to the API is outstanding at any time, and it is the one issued
\* last, so every read has completed before the next is issued; the test
\* sheets are read in the order of the sheet-name list
C25_ReadsSerial ==
    /\ Cardinality(locals.inflight) <= 1
    /\ locals.inflight \subseteq {Len(issued)}
    /\ Len(locals.got) + Cardinality(locals.inflight) = Len(issued)
    /\ \A i, j \in 1..Len(TestSheetReads) :
           i < j => PositionOf(TestSheetReads[i].range)
                        < PositionOf(TestSheetReads[j].range)

\* getStudentTests waits for the second test sheet after the mapping sheet,
\* the listing, the first test sheet and the mapping sheet again
C25_Witness ==
    /\ call # NoCall /\ call.op = "getStudentTests"
    /\ Len(issued) = 5
    /\ locals.inflight = {5}
    /\ Len(locals.got) = 4
    /\ [k \in 1..5 |-> issued[k].range]
           = <<MappingName, <<>>, <<"T", "e", "s", "t", "1">>, MappingName, <<"T", "e", "s", "t", "2">>>>

---------------------------------------------------------------------------
(* Claims about the mapping sheet within one getSchoolStats request *)

\* getSchoolStats has read the mapping sheet for the roster (first response),
\* for the lookup map (third) and for the username set (fourth)
MappingReadThrice ==
    /\ call # NoCall /\ call.op = "getSchoolStats"
    /\ Len(locals.got) >= 4

\* C28: within one getSchoolStats request the roster, the identity lookup and
\* the school's username set are computed from one and the same version of
\* the mapping sheet, even when the sheet is edited by another party or a read
\* of it fails while the request is in progress
C28_OneMappingVersion ==
    MappingReadThrice =>
        \E m \in MappingVersions :
            /\ getStudentsBySchool(locals.got[1].v, call.schoolId)
                   = getStudentsBySchool(m, call.schoolId)
            /\ buildStudentLookupMap(locals.got[3].v) = buildStudentLookupMap(m)
            /\ locals.got[4].v # <<>>
            /\ studentUserNames(locals.got[4].v, call.schoolId)
                   = studentUserNames(m, call.schoolId)

\* the three reads returned the same values
C28_SameValuesRead ==
    MappingReadThrice =>
        locals.got[1] = locals.got[3] /\ locals.got[3] = locals.got[4]

\* a result whose roster is older than its username set: more students
\* attended than the school has
C28_StaleRoster ==
    /\ MappingReadThrice
    /\ result # Undefined
    /\ result.error = NoError
    /\ result.totalStudents = 1
    /\ result.testStats[1].attendedCount = 2

---------------------------------------------------------------------------
(* Claims about the columns of the enrichTestSheet output *)

\* the 1-based position of the first header cell equal to col, 0 for none
ColumnNamed(header, col) ==
    ColumnWhere(header, {i \in 1..Len(header) : header[i] = col})

\* output row i is as long as the output header, and the four values pushed
\* after the cells of input row i sit under the header cells with their names
RowAligned(i) ==
    /\ Len(result.data[i]) = Len(result.data[1])
    /\ \A c \in 1..Len(EnrichmentColumns) :
           ColumnNamed(result.data[1], EnrichmentColumns[c]) = Len(InputGrid[i]) + c

\* C29: in the output of enrichTestSheet for a sheet with a learner-details
\* column, every data row has the length of the output header and its School
\* Name, OpenGrad School Code, UDSIE Code and EMIS ID values sit at the indices
\* of the header columns with those names, for any input grid
C29_RowsAlignedWithHeader ==
    (EnrichCalled /\ InputGrid # <<>> /\ HasLearnerDetails(InputGrid[1])) =>
        \A i \in 2..Len(result.data) : RowAligned(i)

\* the rows that are as long as an input header without any of the four
\* names are aligned, and no other row is
C29_AlignedIffFullRowAndNewNames ==
    (EnrichCalled /\ InputGrid # <<>> /\ HasLearnerDetails(InputGrid[1])) =>
        \A i \in 2..Len(result.data) :
            RowAligned(i) <=>
                /\ Len(InputGrid[i]) = Len(InputGrid[1])
                /\ MissingColumns(InputGrid[1]) = EnrichmentColumns

\* a row shorter than its header: the pushed values are under other columns
C29_ShortRowShifted ==
    /\ EnrichCalled /\ InputGrid # <<>> /\ HasLearnerDetails(InputGrid[1])
    /\ Len(InputGrid) = 2
    /\ InputGrid[1] = <<<<"L", "e", "a", "r", "n", "e", "r", " ", "D", "e", "t", "a", "i", "l", "s">>, <<"U", "D", "S", "I", "E", " ", "C", "o", "d", "e">>, <<"S", "c", "o", "r", "e">>>>
    /\ InputGrid[2] = <<<<"U", "1", "@", "x", ".", "i", "o">>, <<"8", "5">>>>
    /\ result.data[2] = <<<<"U", "1", "@", "x", ".", "i", "o">>, <<"8", "5">>, <<"H", "i", "l", "l", " ", "S", "c", "h", "o", "o", "l">>, <<"S", "1">>, <<"D", "1">>, <<"E", "1">>>>
    /\ result.data[1] = <<<<"L", "e", "a", "r", "n", "e", "r", " ", "D", "e", "t", "a", "i", "l", "s">>, <<"U", "D", "S", "I", "E", " ", "C", "o", "d", "e">>, <<"S", "c", "o", "r", "e">>, <<"S", "c", "h", "o", "o", "l", " ", "N", "a", "m", "e">>,
                          <<"O", "p", "e", "n", "G", "r", "a", "d", " ", "S", "c", "h", "o", "o", "l", " ", "C", "o", "d", "e">>, <<"E", "M", "I", "S", " ", "I", "D">>>>

---------------------------------------------------------------------------
(* Claims about the start-up of the server *)

\* initializeSheets() threw: no spreadsheet id, no credentials, or a service
\* account whose client cannot be obtained
InitializationFailed ==
    \/ ~server.env.spreadsheetId
    \/ server.env.auth = "none"
    \/ server.env.auth = "serviceAccount" /\ ~server.env.clientOk

DataEndpoints == {"getStudentTests", "getTestDetails", "enrichTestSheet", "getSchoolStats"}

\* the request lacks a parameter that its route requires
ParameterMissing ==
    \/ call.op \in {"getStudentTests", "getTestDetails"} /\ call.studentId = Undefined
    \/ call.op \in {"getTestDetails", "enrichTestSheet"} /\ call.testName = Undefined
    \/ call.op = "getSchoolStats" /\ call.schoolId = Undefined

\* C26: after a failed initializeSheets the server listens all the same and,
\* for the rest of the process (the client is never set later), GET /health
\* answers status ok while every data endpoint answers HTTP 500 with the "not
\* initialized" error without a request to the sheets API; after a successful
\* initialization a request without its required parameter answers HTTP 400
C26_NotInitializedForever ==
    /\ server.listening => (server.sheetsClient <=> ~InitializationFailed)
    /\ call # NoCall =>
          /\ server.listening
          /\ call.op = "health" => result.status = 200 /\ result.body.status = "ok"
          /\ (InitializationFailed /\ call.op \in DataEndpoints) =>
                 /\ result.status = 500
                 /\ result.body.error = NotInitializedError
                 /\ issued = <<>>
          /\ (~InitializationFailed /\ call.op \in DataEndpoints /\ ParameterMissing) =>
                 /\ result.status = 400
                 /\ issued = <<>>

\* the service account's client could not be obtained; a complete request
\* for school statistics is answered with 500
C26_Witness ==
    /\ server.env = [spreadsheetId |-> TRUE, auth |-> "serviceAccount", clientOk |-> FALSE]
    /\ server.listening
    /\ call # NoCall /\ call.op = "getSchoolStats"
    /\ call.schoolId # Undefined
    /\ result.status = 500
    /\ issued = <<>>

\* after a successful start-up the request without schoolId is answered 400
C26_BadRequestWitness ==
    /\ ~InitializationFailed
    /\ call # NoCall /\ call.op = "getSchoolStats"
    /\ call.schoolId = Undefined
    /\ result.status = 400

---------------------------------------------------------------------------
(* Claims about the details shown by StudentDashboard *)

DetailsShown == dashboard.testDetails # Null

\* a response that is still awaited for a test that is not the selected one
LateRequests == {r \in dashboard.pending : dashboard.selectedTest # Str(r.testName)}

\* C30: whenever StudentDashboard shows test details (testDetails is not
\* null), they are the response for the selected test: testDetails.testName
\* equals selectedTest, under any interleaving of clicks and responses
C30_DetailsOfSelectedTest ==
    DetailsShown => dashboard.selectedTest = Str(dashboard.testDetails.testName)

\* the details of a test are shown while another test is the selected one
C30_LateResponseShown ==
    /\ DetailsShown
    /\ dashboard.selectedTest # Null
    /\ dashboard.selectedTest # Str(dashboard.testDetails.testName)

\* the details of a test are shown while no test is selected
C30_DeselectedShown ==
    /\ DetailsShown
    /\ dashboard.selectedTest = Null

\* the details of the selected test are shown and nothing is awaited
C30_Witness ==
    /\ DetailsShown
    /\ dashboard.selectedTest = Str(dashboard.testDetails.testName)
    /\ dashboard.pending = {}
    /\ dashboard.requests >= 2

===========================================================================
